---- MODULE Spec2Model ----
(***************************************************************************)
(* A model of the krusty chess engine's board core: FEN parsing            *)
(* (board.rs), the precomputed attack tables and the pseudo-legal move     *)
(* generator (move_generator.rs), make/unmake with incremental Zobrist     *)
(* hashing (make_move.rs, zobrist_hash.rs).                                *)
(*                                                                         *)
(* Representation choices:                                                 *)
(*  - a Bitboard (u64) is the set of the squares whose bit is set; `|`,    *)
(*    `&`, `!` are union, intersection, complement in 0..63; `<< n` and    *)
(*    `>> n` move every square by n and drop what leaves 0..63;            *)
(*  - a Square is its discriminant 0..63, Square::None is 64;              *)
(*  - the Zobrist hash is an XOR of entries of `numbers`; it is kept as    *)
(*    the set of the indices of `numbers` that are XORed in an odd number  *)
(*    of times, so XOR with numbers[i] toggles i.  Two equal index sets    *)
(*    are equal u64 hashes.                                                *)
(***************************************************************************)
EXTENDS Integers, Sequences, FiniteSets, TLC

\* ------------------------------------------------------------------ bounds
\* makes (and null makes) not yet unmade
MaxPly == 2
\* parse_fen is called on boards at most this many plies away from their FEN
MaxParsePly == 1

\* ------------------------------------------------------- squares (square.rs)
Squares == 0..63
NoSquare == 64

A1 == 0
B1 == 1
C1 == 2
D1 == 3
E1 == 4
F1 == 5
G1 == 6
H1 == 7
A8 == 56
B8 == 57
C8 == 58
D8 == 59
E8 == 60
F8 == 61
G8 == 62
H8 == 63

RankOf(sq) == sq \div 8
FileOf(sq) == sq % 8

\* Square::new(rank, file): index = rank * 8 + file
SquareNew(rank, file) == rank * 8 + file

EMPTY_BB == {}

Shl(bb, n) == {s + n : s \in bb} \cap Squares
Shr(bb, n) == {s - n : s \in bb} \cap Squares
BitNot(bb) == Squares \ bb

\* pop_bit takes the least significant set bit
get_lsb_square(bb) == CHOOSE s \in bb : \A t \in bb : s <= t

RECURSIVE BitsInOrder(_)
\* the squares of a bitboard in the order a `while bb != EMPTY_BB { bb.pop_bit() }` loop visits them
BitsInOrder(bb) ==
    IF bb = {} THEN <<>>
    ELSE LET s == get_lsb_square(bb) IN <<s>> \o BitsInOrder(bb \ {s})

\* ------------------------------------------------ pieces and sides (square.rs)
Kinds == <<"Pawn", "Knight", "Bishop", "Rook", "Queen", "King">>
Colors == <<"White", "Black">>

\* `piece.kind as usize`
KindIndex(kind) ==
    CASE kind = "Pawn" -> 0 [] kind = "Knight" -> 1 [] kind = "Bishop" -> 2
      [] kind = "Rook" -> 3 [] kind = "Queen" -> 4 [] kind = "King" -> 5
      [] kind = "NoPiece" -> 6

\* `piece.color as usize`
ColorIndex(color) ==
    CASE color = "White" -> 0 [] color = "Black" -> 1 [] color = "None" -> 2

PieceNew(color, kind) == [color |-> color, kind |-> kind]
\* Piece::default()
NoPiece == [color |-> "None", kind |-> "NoPiece"]

RealPieces == {PieceNew(c, k) : c \in {"White", "Black"},
                                k \in {"Pawn", "Knight", "Bishop", "Rook", "Queen", "King"}}

\* impl Not for Side
NotSide(side) == IF side = "White" THEN "Black" ELSE "White"

\* ------------------------------------- attack tables (move_generator.rs)
NOT_A_FILE == {s \in Squares : FileOf(s) # 0}
NOT_H_FILE == {s \in Squares : FileOf(s) # 7}
NOT_AB_FILE == {s \in Squares : FileOf(s) \notin {0, 1}}
NOT_GH_FILE == {s \in Squares : FileOf(s) \notin {6, 7}}
RANK_4_MASK == {s \in Squares : RankOf(s) = 3}
RANK_5_MASK == {s \in Squares : RankOf(s) = 4}

WHITE_PAWN_PUSHES == [sq \in Squares |-> Shl({sq}, 8)]
BLACK_PAWN_PUSHES == [sq \in Squares |-> Shr({sq}, 8)]

\* a faulty table without the file masks, whose attacks wrap around the board's edge;
\* C36_PawnAttacksExact must tell it from WHITE_PAWN_ATTACKS
WHITE_PAWN_ATTACKS_Wrap == [sq \in Squares |-> Shl({sq}, 9) \cup Shl({sq}, 7)]

WHITE_PAWN_ATTACKS ==
    [sq \in Squares |-> (Shl({sq}, 9) \cap NOT_A_FILE) \cup (Shl({sq}, 7) \cap NOT_H_FILE)]

BLACK_PAWN_ATTACKS ==
    [sq \in Squares |-> (Shr({sq}, 7) \cap NOT_A_FILE) \cup (Shr({sq}, 9) \cap NOT_H_FILE)]

KNIGHT_ATTACKS ==
    [sq \in Squares |->
        (Shl({sq}, 17) \cap NOT_A_FILE) \cup (Shl({sq}, 15) \cap NOT_H_FILE)
        \cup (Shl({sq}, 10) \cap NOT_AB_FILE) \cup (Shl({sq}, 6) \cap NOT_GH_FILE)
        \cup (Shr({sq}, 15) \cap NOT_A_FILE) \cup (Shr({sq}, 17) \cap NOT_H_FILE)
        \cup (Shr({sq}, 6) \cap NOT_AB_FILE) \cup (Shr({sq}, 10) \cap NOT_GH_FILE)]

north_one(bits) == Shl(bits, 8)
south_one(bits) == Shr(bits, 8)
east_one(bits) == Shl(bits, 1) \cap NOT_A_FILE
west_one(bits) == Shr(bits, 1) \cap NOT_H_FILE

KING_ATTACKS ==
    [sq \in Squares |->
        LET attacks0 == east_one({sq}) \cup west_one({sq})
            king_bb == {sq} \cup attacks0
        IN  attacks0 \cup north_one(king_bb) \cup south_one(king_bb)]

pawn_attacks(side) == IF side = "White" THEN WHITE_PAWN_ATTACKS ELSE BLACK_PAWN_ATTACKS
pawn_pushes(side) == IF side = "White" THEN WHITE_PAWN_PUSHES ELSE BLACK_PAWN_PUSHES

\* (rank_offset, file_offset)
ROOK_DIRECTIONS == {<<1, 0>>, <<0, 1>>, <<-1, 0>>, <<0, -1>>}
BISHOP_DIRECTIONS == {<<1, 1>>, <<1, -1>>, <<-1, 1>>, <<-1, -1>>}

InRange(rank, file) == rank \in 0..7 /\ file \in 0..7

RECURSIVE BlockerRay(_, _, _, _)
\* one direction of generate_sliding_blocker_mask: the square is kept only when the
\* next one is still on the board
BlockerRay(rank, file, dr, df) ==
    IF InRange(rank + dr, file + df)
    THEN {SquareNew(rank, file)} \cup BlockerRay(rank + dr, file + df, dr, df)
    ELSE {}

generate_sliding_blocker_mask(square, directions) ==
    UNION {BlockerRay(RankOf(square), FileOf(square), d[1], d[2]) : d \in directions}
        \ {square}

RECURSIVE AttackRay(_, _, _, _, _)
\* one direction of generate_sliding_attack_mask: the square is added, then the walk
\* stops when the next one is off the board or the square just added is a blocker
AttackRay(rank, file, dr, df, blockers) ==
    {SquareNew(rank, file)} \cup
        (IF ~InRange(rank + dr, file + df) \/ SquareNew(rank, file) \in blockers
         THEN {}
         ELSE AttackRay(rank + dr, file + df, dr, df, blockers))

generate_sliding_attack_mask(square, blockers, directions) ==
    UNION {AttackRay(RankOf(square), FileOf(square), d[1], d[2], blockers) : d \in directions}
        \ {square}

ROOK_BLOCKER_MASK == [sq \in Squares |-> generate_sliding_blocker_mask(sq, ROOK_DIRECTIONS)]
BISHOP_BLOCKER_MASK == [sq \in Squares |-> generate_sliding_blocker_mask(sq, BISHOP_DIRECTIONS)]

\* rook_attacks[ROOK_MAGICS[square].get_magic_index(occupancies)].  init_rook_attacks
\* fills the table, for every subset of the square's blocker mask, with the ray walk
\* from that subset; the lookup is modelled as that entry for the masked occupancy
\* (the magic multiplication is taken as a collision-free index, spec 4.3).
get_rook_attacks(square, occupancies) ==
    generate_sliding_attack_mask(square, occupancies \cap ROOK_BLOCKER_MASK[square],
                                 ROOK_DIRECTIONS)

get_bishop_attacks(square, occupancies) ==
    generate_sliding_attack_mask(square, occupancies \cap BISHOP_BLOCKER_MASK[square],
                                 BISHOP_DIRECTIONS)

\* ----------------------------------------------- Zobrist keys (zobrist_hash.rs)
SIDE_OFFSET == 768
CASTLE_OFFSET == 769
EN_PASSANT_OFFSET == 785
ZOBRIST_NUMBERS_SIZE == 794

\* init_zobrist_en_passant_files: 65 entries, Square::None (64) included
ZOBRIST_EN_PASSANT_FILES ==
    [square \in 0..64 |-> IF square \div 8 = 2 \/ square \div 8 = 5 THEN square % 8 ELSE 8]

\* index_piece: the index into `numbers` of the key of (piece, square)
index_piece(piece, square) ==
    LET piece_offset == 6 * ColorIndex(piece.color) + KindIndex(piece.kind)
    IN  piece_offset + square

\* get_key_part, one operator per ZobristKey variant; each yields an index into `numbers`
KeyPiece(piece, square) == index_piece(piece, square)
KeySide == SIDE_OFFSET
KeyCastling(castling_rights) == CASTLE_OFFSET + castling_rights
KeyEnPassantFile(square) == EN_PASSANT_OFFSET + ZOBRIST_EN_PASSANT_FILES[square]

\* hash ^= numbers[key]
Xor(hash, key) == (hash \ {key}) \cup ({key} \ hash)

RECURSIVE XorAll(_, _)
XorAll(hash, keys) ==
    IF keys = <<>> THEN hash ELSE XorAll(Xor(hash, Head(keys)), Tail(keys))

\* ----------------------------------------------------- the Board (board.rs)
\* CastlingKind
WhiteKing == 1
WhiteQueen == 2
BlackKing == 4
BlackQueen == 8

Bits4(n) == {i \in 0..3 : (n \div (2 ^ i)) % 2 = 1}
FromBits4(S) == (IF 0 \in S THEN 1 ELSE 0) + (IF 1 \in S THEN 2 ELSE 0)
                + (IF 2 \in S THEN 4 ELSE 0) + (IF 3 \in S THEN 8 ELSE 0)
\* `&` and `|` on the 4-bit castling rights
BitAnd(a, b) == FromBits4(Bits4(a) \cap Bits4(b))
BitOr(a, b) == FromBits4(Bits4(a) \cup Bits4(b))

\* Board::default(); the move generator and the hasher are constant tables
BoardDefault ==
    [white_pawns |-> EMPTY_BB, white_knights |-> EMPTY_BB, white_bishops |-> EMPTY_BB,
     white_rooks |-> EMPTY_BB, white_queens |-> EMPTY_BB, white_king |-> EMPTY_BB,
     black_pawns |-> EMPTY_BB, black_knights |-> EMPTY_BB, black_bishops |-> EMPTY_BB,
     black_rooks |-> EMPTY_BB, black_queens |-> EMPTY_BB, black_king |-> EMPTY_BB,
     pieces |-> [s \in Squares |-> NoPiece],
     white_occupancies |-> EMPTY_BB, black_occupancies |-> EMPTY_BB,
     side |-> "White", castling_rights |-> 0, halfmove_clock |-> 0,
     en_passant_square |-> NoSquare, history |-> <<>>, hash |-> {}]

\* Board::reset: everything but the hash
reset(b) == [BoardDefault EXCEPT !.hash = b.hash]

\* the field get_piece_bb / get_piece_bb_mut select; "" is the bail! arm
PieceBBField(piece) ==
    CASE piece.color = "White" /\ piece.kind = "Pawn" -> "white_pawns"
      [] piece.color = "White" /\ piece.kind = "Knight" -> "white_knights"
      [] piece.color = "White" /\ piece.kind = "Bishop" -> "white_bishops"
      [] piece.color = "White" /\ piece.kind = "Rook" -> "white_rooks"
      [] piece.color = "White" /\ piece.kind = "Queen" -> "white_queens"
      [] piece.color = "White" /\ piece.kind = "King" -> "white_king"
      [] piece.color = "Black" /\ piece.kind = "Pawn" -> "black_pawns"
      [] piece.color = "Black" /\ piece.kind = "Knight" -> "black_knights"
      [] piece.color = "Black" /\ piece.kind = "Bishop" -> "black_bishops"
      [] piece.color = "Black" /\ piece.kind = "Rook" -> "black_rooks"
      [] piece.color = "Black" /\ piece.kind = "Queen" -> "black_queens"
      [] piece.color = "Black" /\ piece.kind = "King" -> "black_king"
      [] OTHER -> ""

get_piece_bb(b, piece) == b[PieceBBField(piece)]

OccupancyField(side) == IF side = "White" THEN "white_occupancies" ELSE "black_occupancies"
occupancy(b, side) == b[OccupancyField(side)]

empty_squares(b) == BitNot(occupancy(b, "White") \cup occupancy(b, "Black"))

get_piece(b, square) == b.pieces[square]

update_hash(b, key) == [b EXCEPT !.hash = Xor(@, key)]

\* add_piece: Err (board untouched) for a piece with no bitboard
add_piece(b, piece, square) ==
    IF PieceBBField(piece) = ""
    THEN [ok |-> FALSE, b |-> b]
    ELSE [ok |-> TRUE,
          b |-> [b EXCEPT ![PieceBBField(piece)] = @ \cup {square},
                          ![OccupancyField(piece.color)] = @ \cup {square},
                          !.pieces[square] = piece]]

add_piece_and_hash(b, piece, square) ==
    LET r == add_piece(b, piece, square)
    IN  IF r.ok THEN [ok |-> TRUE, b |-> update_hash(r.b, KeyPiece(piece, square))] ELSE r

\* a faulty remove_piece that leaves the square in its colour's occupancy; C4_Agree
\* must tell it from remove_piece
remove_piece_KeepsOccupancy(b, square) ==
    LET piece == b.pieces[square]
    IN  IF piece.kind = "NoPiece"
        THEN [ok |-> FALSE, b |-> b, piece |-> piece]
        ELSE [ok |-> TRUE,
              b |-> [b EXCEPT ![PieceBBField(piece)] = @ \ {square},
                              !.pieces[square] = NoPiece],
              piece |-> piece]

\* remove_piece: Err "cannot remove empty piece" when the mailbox square is empty
remove_piece(b, square) ==
    LET piece == b.pieces[square]
    IN  IF piece.kind = "NoPiece"
        THEN [ok |-> FALSE, b |-> b, piece |-> piece]
        ELSE [ok |-> TRUE,
              b |-> [b EXCEPT ![PieceBBField(piece)] = @ \ {square},
                              ![OccupancyField(piece.color)] = @ \ {square},
                              !.pieces[square] = NoPiece],
              piece |-> piece]

remove_piece_and_hash(b, square) ==
    LET r == remove_piece(b, square)
    IN  IF r.ok THEN [r EXCEPT !.b = update_hash(r.b, KeyPiece(r.piece, square))] ELSE r

can_castle(b, castling_kind) == BitAnd(b.castling_rights, castling_kind) # 0
hash_castling_rights(b) == update_hash(b, KeyCastling(b.castling_rights))
hash_en_passant_square(b) == update_hash(b, KeyEnPassantFile(b.en_passant_square))
switch_side(b) == [b EXCEPT !.side = NotSide(@)]
switch_side_and_hash(b) == update_hash(switch_side(b), KeySide)

\* hash_position: the full recomputation
hash_position(b) ==
    LET occupied == BitsInOrder({s \in Squares : b.pieces[s].kind # "NoPiece"})
        h1 == XorAll({}, [i \in 1..Len(occupied) |-> KeyPiece(b.pieces[occupied[i]], occupied[i])])
        h2 == IF b.side = "Black" THEN Xor(h1, KeySide) ELSE h1
        h3 == Xor(h2, KeyCastling(b.castling_rights))
    IN  Xor(h3, KeyEnPassantFile(b.en_passant_square))

\* ------------------------------------------------------- parse_fen (board.rs)
Char(s, i) == SubSeq(s, i, i)

RECURSIVE SplitAt(_, _, _, _)
SplitAt(s, sep, start, i) ==
    IF i > Len(s) THEN <<SubSeq(s, start, Len(s))>>
    ELSE IF Char(s, i) = sep
         THEN <<SubSeq(s, start, i - 1)>> \o SplitAt(s, sep, i + 1, i + 1)
         ELSE SplitAt(s, sep, start, i + 1)

\* str::split(sep): "a//b" has an empty middle part, "" has one empty part
Split(s, sep) == SplitAt(s, sep, 1, 1)

Reverse(seq) == [i \in 1..Len(seq) |-> seq[Len(seq) + 1 - i]]

PieceChars == {"p", "n", "b", "r", "q", "k", "P", "N", "B", "R", "Q", "K"}

\* impl TryFrom<char> for Piece
PieceFromChar(ch) ==
    CASE ch = "p" -> PieceNew("Black", "Pawn") [] ch = "n" -> PieceNew("Black", "Knight")
      [] ch = "b" -> PieceNew("Black", "Bishop") [] ch = "r" -> PieceNew("Black", "Rook")
      [] ch = "q" -> PieceNew("Black", "Queen") [] ch = "k" -> PieceNew("Black", "King")
      [] ch = "P" -> PieceNew("White", "Pawn") [] ch = "N" -> PieceNew("White", "Knight")
      [] ch = "B" -> PieceNew("White", "Bishop") [] ch = "R" -> PieceNew("White", "Rook")
      [] ch = "Q" -> PieceNew("White", "Queen") [] ch = "K" -> PieceNew("White", "King")

\* char::to_digit(10); -1 is None
ToDigit(ch) ==
    CASE ch = "0" -> 0 [] ch = "1" -> 1 [] ch = "2" -> 2 [] ch = "3" -> 3 [] ch = "4" -> 4
      [] ch = "5" -> 5 [] ch = "6" -> 6 [] ch = "7" -> 7 [] ch = "8" -> 8 [] ch = "9" -> 9
      [] OTHER -> -1

\* impl TryFrom<char> for File; -1 is Err
FileFromChar(ch) ==
    CASE ch = "a" -> 0 [] ch = "b" -> 1 [] ch = "c" -> 2 [] ch = "d" -> 3 [] ch = "e" -> 4
      [] ch = "f" -> 5 [] ch = "g" -> 6 [] ch = "h" -> 7 [] OTHER -> -1

\* impl TryFrom<char> for Rank: (digit - 1).try_into(); -1 is Err.  For '0' the usize
\* subtraction overflows: a build with overflow checks panics (-2), one without wraps
\* to usize::MAX, which is no rank (Err)
RankFromChar(ch, overflow_checks) ==
    LET digit == ToDigit(ch)
    IN  IF digit = -1 THEN -1
        ELSE IF digit = 0 THEN (IF overflow_checks THEN -2 ELSE -1)
        ELSE IF digit - 1 <= 7 THEN digit - 1 ELSE -1

\* impl TryFrom<char> for CastlingKind; 0 is Err
CastlingKindFromChar(ch) ==
    CASE ch = "K" -> WhiteKing [] ch = "Q" -> WhiteQueen
      [] ch = "k" -> BlackKing [] ch = "q" -> BlackQueen [] OTHER -> 0

RECURSIVE ParseRankChars(_, _, _, _, _)
\* the `for ch in rank_fen.chars()` loop of one rank, from character i on
ParseRankChars(b, rank, rank_fen, i, file_index) ==
    IF i > Len(rank_fen) THEN [ok |-> TRUE, b |-> b]
    ELSE LET ch == Char(rank_fen, i) IN
         IF ch \in PieceChars
         THEN IF file_index > 7
              THEN [ok |-> FALSE, b |-> b]
              ELSE ParseRankChars(add_piece(b, PieceFromChar(ch), SquareNew(rank, file_index)).b,
                                  rank, rank_fen, i + 1, file_index + 1)
         ELSE IF ToDigit(ch) \in 1..8
              THEN ParseRankChars(b, rank, rank_fen, i + 1, file_index + ToDigit(ch))
              ELSE [ok |-> FALSE, b |-> b]

RECURSIVE ParseRanks(_, _, _)
\* the `for (rank_index, rank_fen) in ranks` loop; ranks is reversed, so ranks[1] is rank 1
ParseRanks(b, ranks, k) ==
    IF k > Len(ranks) THEN [ok |-> TRUE, b |-> b]
    ELSE LET r == ParseRankChars(b, k - 1, ranks[k], 1, 0)
         IN  IF r.ok THEN ParseRanks(r.b, ranks, k + 1) ELSE r

RECURSIVE ParseCastling(_, _, _)
\* the `for ch in castling_rights.chars()` loop
ParseCastling(b, field, i) ==
    IF i > Len(field) THEN [ok |-> TRUE, b |-> b]
    ELSE LET ch == Char(field, i) IN
         IF ch = "-" THEN ParseCastling(b, field, i + 1)
         ELSE IF CastlingKindFromChar(ch) = 0 THEN [ok |-> FALSE, b |-> b]
         ELSE ParseCastling([b EXCEPT !.castling_rights = BitOr(@, CastlingKindFromChar(ch))],
                            field, i + 1)

RECURSIVE DigitsValue(_, _, _)
DigitsValue(s, i, acc) ==
    IF i > Len(s) THEN acc
    ELSE IF ToDigit(Char(s, i)) = -1 THEN -1
    ELSE DigitsValue(s, i + 1, acc * 10 + ToDigit(Char(s, i)))

\* str::parse::<usize>(): an optional '+', then one digit or more; -1 is Err
ParseUsize(s) ==
    LET digits == IF Len(s) > 0 /\ Char(s, 1) = "+" THEN SubSeq(s, 2, Len(s)) ELSE s
    IN  IF Len(digits) = 0 THEN -1 ELSE DigitsValue(digits, 1, 0)

\* the en-passant field: chars().nth(0) and nth(1), '-' when missing
ParseEnPassant(field, overflow_checks) ==
    LET ep_file == IF Len(field) >= 1 THEN Char(field, 1) ELSE "-"
        ep_rank == IF Len(field) >= 2 THEN Char(field, 2) ELSE "-"
        rank == RankFromChar(ep_rank, overflow_checks)
        file == FileFromChar(ep_file)
    IN  IF rank = -2 THEN -2
        ELSE IF rank >= 0 /\ file >= 0 THEN SquareNew(rank, file) ELSE NoSquare

\* parse_fen: ret is "ok", "err" or "panic"; b is the board it leaves behind
parse_fen(b0, fen, overflow_checks) ==
    LET b1 == reset(b0)
        fields == Split(fen, " ")
    IN
    IF Len(fields) # 6 THEN [ret |-> "err", b |-> b1] ELSE
    LET ranks == Reverse(Split(fields[1], "/")) IN
    IF Len(ranks) # 8 THEN [ret |-> "err", b |-> b1] ELSE
    LET placed == ParseRanks(b1, ranks, 1) IN
    IF ~placed.ok THEN [ret |-> "err", b |-> placed.b] ELSE
    LET side == IF Len(fields[2]) >= 1 THEN Char(fields[2], 1) ELSE "" IN
    IF side \notin {"w", "b"} THEN [ret |-> "err", b |-> placed.b] ELSE
    LET b2 == [placed.b EXCEPT !.side = IF side = "w" THEN "White" ELSE "Black"]
        castled == ParseCastling(b2, fields[3], 1)
    IN
    IF ~castled.ok THEN [ret |-> "err", b |-> castled.b] ELSE
    LET ep == ParseEnPassant(fields[4], overflow_checks) IN
    IF ep = -2 THEN [ret |-> "panic", b |-> castled.b] ELSE
    LET b3 == [castled.b EXCEPT !.en_passant_square = ep]
        clock == ParseUsize(fields[5])
    IN
    IF clock = -1 THEN [ret |-> "err", b |-> b3] ELSE
    LET b4 == [b3 EXCEPT !.halfmove_clock = clock]
    IN  [ret |-> "ok", b |-> [b4 EXCEPT !.hash = hash_position(b4)]]

\* --------------------------------------------- moves (move_generator.rs)
\* Move::new: the score bits are not part of a move's identity
MoveNew(from, to, kind, flag) == [from |-> from, to |-> to, kind |-> kind, flag |-> flag]

RECURSIVE Flatten(_)
Flatten(seqs) == IF seqs = <<>> THEN <<>> ELSE Head(seqs) \o Flatten(Tail(seqs))

\* is_promotion
is_promotion(side, to_square) ==
    IF side = "White" THEN RankOf(to_square) = 7 ELSE RankOf(to_square) = 0

\* a faulty expansion that leaves out the rook; C22_PromotionExpansion must tell it
\* from push_all_promotions
push_all_promotions_NoRook(from, to) ==
    <<MoveNew(from, to, "Promotion", "KnightPromotion"),
      MoveNew(from, to, "Promotion", "BishopPromotion"),
      MoveNew(from, to, "Promotion", "QueenPromotion")>>

push_all_promotions(from, to) ==
    <<MoveNew(from, to, "Promotion", "KnightPromotion"),
      MoveNew(from, to, "Promotion", "BishopPromotion"),
      MoveNew(from, to, "Promotion", "RookPromotion"),
      MoveNew(from, to, "Promotion", "QueenPromotion")>>

\* is_square_attacked: the reverse lookups from the attacked square
is_square_attacked(b, square, attacker_side) ==
    LET pawns == get_piece_bb(b, PieceNew(attacker_side, "Pawn"))
        king == get_piece_bb(b, PieceNew(attacker_side, "King"))
        knights == get_piece_bb(b, PieceNew(attacker_side, "Knight"))
        occupancies == occupancy(b, "White") \cup occupancy(b, "Black")
        bishops == get_piece_bb(b, PieceNew(attacker_side, "Bishop"))
        bishop_attacks == get_bishop_attacks(square, occupancies)
        rooks == get_piece_bb(b, PieceNew(attacker_side, "Rook"))
        rook_attacks == get_rook_attacks(square, occupancies)
        queens == get_piece_bb(b, PieceNew(attacker_side, "Queen"))
    IN  \/ pawn_attacks(NotSide(attacker_side))[square] \cap pawns # EMPTY_BB
        \/ KING_ATTACKS[square] \cap king # EMPTY_BB
        \/ KNIGHT_ATTACKS[square] \cap knights # EMPTY_BB
        \/ bishop_attacks \cap bishops # EMPTY_BB
        \/ rook_attacks \cap rooks # EMPTY_BB
        \/ (rook_attacks \cup bishop_attacks) \cap queens # EMPTY_BB

\* the moves of one pawn, in the order generate_pawn_moves pushes them
PawnMovesFrom(b, from_square) ==
    LET side == b.side
        empty == empty_squares(b)
        single_push == pawn_pushes(side)[from_square] \cap empty
        double_push == IF side = "White"
                       THEN Shl(single_push, 8) \cap RANK_4_MASK \cap empty
                       ELSE Shr(single_push, 8) \cap RANK_5_MASK \cap empty
        single_moves ==
            IF single_push = EMPTY_BB THEN <<>>
            ELSE LET to_square == get_lsb_square(single_push) IN
                 IF is_promotion(side, to_square)
                 THEN push_all_promotions(from_square, to_square)
                 ELSE <<MoveNew(from_square, to_square, "Quiet", "None")>>
        double_moves ==
            IF double_push = EMPTY_BB THEN <<>>
            ELSE <<MoveNew(from_square, get_lsb_square(double_push), "Quiet", "None")>>
        en_passant_bb == IF b.en_passant_square = NoSquare THEN EMPTY_BB
                         ELSE {b.en_passant_square}
        enemy == occupancy(b, NotSide(side)) \cup en_passant_bb
        attacks == BitsInOrder(pawn_attacks(side)[from_square] \cap enemy)
        attack_moves ==
            Flatten([i \in 1..Len(attacks) |->
                IF is_promotion(side, attacks[i])
                THEN push_all_promotions(from_square, attacks[i])
                ELSE <<MoveNew(from_square, attacks[i], "Capture",
                               IF attacks[i] = b.en_passant_square THEN "EnPassant" ELSE "None")>>])
    IN  single_moves \o double_moves \o attack_moves

generate_pawn_moves(b) ==
    LET pawns == BitsInOrder(get_piece_bb(b, PieceNew(b.side, "Pawn")))
    IN  Flatten([i \in 1..Len(pawns) |-> PawnMovesFrom(b, pawns[i])])

\* the inner `while moves != EMPTY_BB` loop shared by the king, knight and slider generators
MovesTo(b, from_square, possible_attacks) ==
    LET targets == BitsInOrder(possible_attacks \cap BitNot(occupancy(b, b.side)))
        enemy_occupancy == occupancy(b, NotSide(b.side))
    IN  [i \in 1..Len(targets) |->
            MoveNew(from_square, targets[i],
                    IF targets[i] \in enemy_occupancy THEN "Capture" ELSE "Quiet", "None")]

generate_knight_moves(b) ==
    LET knights == BitsInOrder(get_piece_bb(b, PieceNew(b.side, "Knight")))
    IN  Flatten([i \in 1..Len(knights) |-> MovesTo(b, knights[i], KNIGHT_ATTACKS[knights[i]])])

\* generate_king_moves pops one king only; with no king pop_bit panics (see KingMissing)
generate_king_moves(b) ==
    LET from_square == get_lsb_square(get_piece_bb(b, PieceNew(b.side, "King")))
    IN  MovesTo(b, from_square, KING_ATTACKS[from_square])

AllOccupancies(b) == occupancy(b, "White") \cup occupancy(b, "Black")

generate_rook_moves(b) ==
    LET rooks == BitsInOrder(get_piece_bb(b, PieceNew(b.side, "Rook")))
    IN  Flatten([i \in 1..Len(rooks) |->
            MovesTo(b, rooks[i], get_rook_attacks(rooks[i], AllOccupancies(b)))])

generate_bishop_moves(b) ==
    LET bishops == BitsInOrder(get_piece_bb(b, PieceNew(b.side, "Bishop")))
    IN  Flatten([i \in 1..Len(bishops) |->
            MovesTo(b, bishops[i], get_bishop_attacks(bishops[i], AllOccupancies(b)))])

generate_queen_moves(b) ==
    LET queens == BitsInOrder(get_piece_bb(b, PieceNew(b.side, "Queen")))
    IN  Flatten([i \in 1..Len(queens) |->
            MovesTo(b, queens[i], get_bishop_attacks(queens[i], AllOccupancies(b))
                                  \cup get_rook_attacks(queens[i], AllOccupancies(b)))])

\* a faulty castling generator that does not ask for the right; C6_NoMakeError must
\* tell it from CastleIf
CastleIf_IgnoresRight(b, castling_kind, must_be_empty, king_from, king_over, king_to) ==
    IF /\ must_be_empty \cap AllOccupancies(b) = EMPTY_BB
       /\ ~is_square_attacked(b, king_from, NotSide(b.side))
       /\ ~is_square_attacked(b, king_over, NotSide(b.side))
    THEN <<MoveNew(king_from, king_to, "Castle", "None")>>
    ELSE <<>>

\* a faulty castling generator that does not look at the square the king passes over;
\* C11_CastleNotThroughAttack must tell it from CastleIf
CastleIf_ThroughAttack(b, castling_kind, must_be_empty, king_from, king_over, king_to) ==
    IF /\ can_castle(b, castling_kind)
       /\ must_be_empty \cap AllOccupancies(b) = EMPTY_BB
       /\ ~is_square_attacked(b, king_from, NotSide(b.side))
    THEN <<MoveNew(king_from, king_to, "Castle", "None")>>
    ELSE <<>>

\* a faulty castling generator that also wants the king's destination unattacked;
\* C30_CastleGenerated must tell it from CastleIf
CastleIf_SafeDestination(b, castling_kind, must_be_empty, king_from, king_over, king_to) ==
    IF /\ can_castle(b, castling_kind)
       /\ must_be_empty \cap AllOccupancies(b) = EMPTY_BB
       /\ ~is_square_attacked(b, king_from, NotSide(b.side))
       /\ ~is_square_attacked(b, king_over, NotSide(b.side))
       /\ ~is_square_attacked(b, king_to, NotSide(b.side))
    THEN <<MoveNew(king_from, king_to, "Castle", "None")>>
    ELSE <<>>

\* one castling move of generate_castling_moves: the right, the squares that must be
\* empty, the two squares that must not be attacked
CastleIf(b, castling_kind, must_be_empty, king_from, king_over, king_to) ==
    IF /\ can_castle(b, castling_kind)
       /\ must_be_empty \cap AllOccupancies(b) = EMPTY_BB
       /\ ~is_square_attacked(b, king_from, NotSide(b.side))
       /\ ~is_square_attacked(b, king_over, NotSide(b.side))
    THEN <<MoveNew(king_from, king_to, "Castle", "None")>>
    ELSE <<>>

generate_castling_moves(b) ==
    IF b.side = "White"
    THEN CastleIf(b, WhiteKing, {F1, G1}, E1, F1, G1)
         \o CastleIf(b, WhiteQueen, {D1, C1, B1}, E1, D1, C1)
    ELSE CastleIf(b, BlackKing, {F8, G8}, E8, F8, G8)
         \o CastleIf(b, BlackQueen, {D8, C8, B8}, E8, D8, C8)

\* pop_bit on an empty king bitboard: get_lsb overflows or the square conversion
\* panics ("out of range!"), whatever the build
KingMissing(b, side) == get_piece_bb(b, PieceNew(side, "King")) = EMPTY_BB

\* generate_all_moves: ret "ok" with the move list, or "panic"
generate_all_moves(b) ==
    IF KingMissing(b, b.side)
    THEN [ret |-> "panic", moves |-> <<>>]
    ELSE [ret |-> "ok",
          moves |-> generate_pawn_moves(b) \o generate_king_moves(b)
                    \o generate_castling_moves(b) \o generate_knight_moves(b)
                    \o generate_bishop_moves(b) \o generate_rook_moves(b)
                    \o generate_queen_moves(b)]

\* a faulty is_in_check that asks whether the side's own pieces attack its king;
\* C5_Legality must tell it from is_in_check
is_in_check_OwnSide(b, side) ==
    IF KingMissing(b, side) THEN "panic"
    ELSE IF is_square_attacked(b, get_lsb_square(get_piece_bb(b, PieceNew(side, "King"))),
                               side)
         THEN "check" ELSE "safe"

\* a faulty is_in_check that never sees a check; C12_OneKingNoKingCapture must tell
\* it from is_in_check
is_in_check_Never(b, side) == IF KingMissing(b, side) THEN "panic" ELSE "safe"

\* get_king_square + is_in_check: "panic" when the side has no king (trailing_zeros
\* of 0 is 64, which is no Square), else whether the king's square is attacked
is_in_check(b, side) ==
    IF KingMissing(b, side) THEN "panic"
    ELSE IF is_square_attacked(b, get_lsb_square(get_piece_bb(b, PieceNew(side, "King"))),
                               NotSide(side))
         THEN "check" ELSE "safe"

\* ------------------------------------------------ make / unmake (make_move.rs)
\* a faulty table with the two white rook corners swapped; C10_RightsOnlyShrink must
\* tell it from CASTLING_PERMISSIONS_TABLE
CASTLING_PERMISSIONS_TABLE_Swapped ==
    [sq \in Squares |->
        CASE sq = A1 -> 15 - WhiteKing
          [] sq = E1 -> 15 - WhiteQueen - WhiteKing
          [] sq = H1 -> 15 - WhiteQueen
          [] sq = A8 -> 15 - BlackQueen
          [] sq = E8 -> 15 - BlackQueen - BlackKing
          [] sq = H8 -> 15 - BlackKing
          [] OTHER -> 15]

\* init_castling_permissions_table
CASTLING_PERMISSIONS_TABLE ==
    [sq \in Squares |->
        CASE sq = A1 -> 15 - WhiteQueen
          [] sq = E1 -> 15 - WhiteQueen - WhiteKing
          [] sq = H1 -> 15 - WhiteKing
          [] sq = A8 -> 15 - BlackQueen
          [] sq = E8 -> 15 - BlackQueen - BlackKing
          [] sq = H8 -> 15 - BlackKing
          [] OTHER -> 15]

\* Square::distance_between: the difference of the two square indices
distance_between(a, b) == IF a >= b THEN a - b ELSE b - a

\* Square::north / Square::south
north(sq) == sq + 8
south(sq) == sq - 8

HistoryItem(b, moved_piece, captured_piece, hash) ==
    [castling_rights |-> b.castling_rights, en_passant_square |-> b.en_passant_square,
     halfmove_clock |-> b.halfmove_clock, moved_piece |-> moved_piece,
     captured_piece |-> captured_piece, hash |-> hash]

\* a faulty increment that leaves the clock alone; C29_ClockAfterMake must tell it
\* from increment_clock
increment_clock_Keeps(b) == b

increment_clock(b) == [b EXCEPT !.halfmove_clock = @ + 1]
reset_clock(b) == [b EXCEPT !.halfmove_clock = 0]
set_en_passant_square(b, square) == [b EXCEPT !.en_passant_square = square]
\* a faulty push that keeps one item only; C13_HistoryLength must tell it from
\* push_history
push_history_Overwrites(b, item) == [b EXCEPT !.history = <<item>>]

push_history(b, item) == [b EXCEPT !.history = Append(@, item)]

\* the rook's squares of a castle to to_square; <<>> is the bail! arm
CastleRookSquares(to_square) ==
    CASE to_square = G1 -> <<H1, F1>>
      [] to_square = C1 -> <<A1, D1>>
      [] to_square = G8 -> <<H8, F8>>
      [] to_square = C8 -> <<A8, D8>>
      [] OTHER -> <<>>

\* the promotion piece of a flag; NoPiece is the bail! arm
PromotionPiece(side, flag) ==
    CASE flag = "KnightPromotion" -> PieceNew(side, "Knight")
      [] flag = "BishopPromotion" -> PieceNew(side, "Bishop")
      [] flag = "RookPromotion" -> PieceNew(side, "Rook")
      [] flag = "QueenPromotion" -> PieceNew(side, "Queen")
      [] OTHER -> NoPiece

\* the `match mv.kind()` of make_move: ok is FALSE where a `?` or bail! returns, b is
\* the board at that point, captured is what history_item.captured_piece becomes
MakeQuiet(b, mv, moved_piece, captured) ==
    LET r == add_piece_and_hash(b, moved_piece, mv.to)
    IN  [ok |-> r.ok, b |-> r.b, captured |-> captured]

MakeCapture(b0, mv, moved_piece, captured) ==
    LET b == reset_clock(b0) IN
    IF mv.flag = "EnPassant"
    THEN LET captured_square == IF b.side = "White" THEN south(mv.to) ELSE north(mv.to)
             rc == remove_piece_and_hash(b, captured_square)
         IN  IF ~rc.ok THEN [ok |-> FALSE, b |-> rc.b, captured |-> captured]
             ELSE LET ra == add_piece_and_hash(rc.b, moved_piece, mv.to)
                  IN  [ok |-> ra.ok, b |-> ra.b, captured |-> rc.piece]
    ELSE LET rc == remove_piece_and_hash(b, mv.to)
         IN  IF ~rc.ok THEN [ok |-> FALSE, b |-> rc.b, captured |-> captured]
             ELSE LET ra == add_piece_and_hash(rc.b, moved_piece, mv.to)
                  IN  [ok |-> ra.ok, b |-> ra.b, captured |-> captured]

MakeCastle(b, mv, moved_piece, captured) ==
    LET ra == add_piece_and_hash(b, moved_piece, mv.to)
        rook_squares == CastleRookSquares(mv.to)
    IN  IF ~ra.ok \/ rook_squares = <<>> THEN [ok |-> FALSE, b |-> ra.b, captured |-> captured]
        ELSE LET rr == remove_piece_and_hash(ra.b, rook_squares[1])
             IN  IF ~rr.ok THEN [ok |-> FALSE, b |-> rr.b, captured |-> captured]
                 ELSE LET rb == add_piece_and_hash(rr.b, rr.piece, rook_squares[2])
                      IN  [ok |-> rb.ok, b |-> rb.b, captured |-> captured]

MakePromotion(b, mv, moved_piece, captured) ==
    LET rc == IF get_piece(b, mv.to).kind # "NoPiece"
              THEN remove_piece_and_hash(b, mv.to)
              ELSE [ok |-> TRUE, b |-> b, piece |-> NoPiece]
        promotion_piece == PromotionPiece(b.side, mv.flag)
    IN  IF ~rc.ok \/ promotion_piece = NoPiece
        THEN [ok |-> FALSE, b |-> rc.b, captured |-> captured]
        ELSE LET ra == add_piece_and_hash(rc.b, promotion_piece, mv.to)
             IN  [ok |-> ra.ok, b |-> ra.b, captured |-> captured]

MakeKind(b, mv, moved_piece, captured) ==
    CASE mv.kind = "Quiet" -> MakeQuiet(b, mv, moved_piece, captured)
      [] mv.kind = "Capture" -> MakeCapture(b, mv, moved_piece, captured)
      [] mv.kind = "Castle" -> MakeCastle(b, mv, moved_piece, captured)
      [] mv.kind = "Promotion" -> MakePromotion(b, mv, moved_piece, captured)

\* a faulty block that sets the en-passant square after every double push;
\* C28_EnPassantAfterMake must tell it from MakePawnBookkeeping
MakePawnBookkeeping_AlwaysSets(b0, mv, moved_piece) ==
    IF moved_piece.kind # "Pawn" THEN b0
    ELSE LET b == reset_clock(b0)
             ep_square == IF b.side = "White" THEN north(mv.from) ELSE south(mv.from)
         IN  IF distance_between(mv.from, mv.to) = 16
             THEN hash_en_passant_square(set_en_passant_square(b, ep_square))
             ELSE b

\* the `if moved_piece.kind == PieceKind::Pawn` block: the clock and the new
\* en-passant square
MakePawnBookkeeping(b0, mv, moved_piece) ==
    IF moved_piece.kind # "Pawn" THEN b0
    ELSE LET b == reset_clock(b0)
             is_double_push == distance_between(mv.from, mv.to) = 16
             ep_square == IF b.side = "White" THEN north(mv.from) ELSE south(mv.from)
             enemy_pawns == get_piece_bb(b, PieceNew(NotSide(b.side), "Pawn"))
         IN  IF is_double_push /\ pawn_attacks(b.side)[ep_square] \cap enemy_pawns # EMPTY_BB
             THEN hash_en_passant_square(set_en_passant_square(b, ep_square))
             ELSE b

\* a faulty update that looks at the square the move leaves only, so that a rook
\* taken at home keeps its right; C39_RightsImplyHome must tell it from
\* MakeCastlingRights
MakeCastlingRights_FromOnly(b0, mv) ==
    LET b == hash_castling_rights(b0)
        new_castling_rights ==
            BitAnd(b.castling_rights, CASTLING_PERMISSIONS_TABLE[mv.from])
    IN  hash_castling_rights([b EXCEPT !.castling_rights = new_castling_rights])

\* the castling-rights update of make_move
MakeCastlingRights(b0, mv) ==
    LET b == hash_castling_rights(b0)
        new_castling_rights ==
            BitAnd(BitAnd(b.castling_rights, CASTLING_PERMISSIONS_TABLE[mv.from]),
                   CASTLING_PERMISSIONS_TABLE[mv.to])
    IN  hash_castling_rights([b EXCEPT !.castling_rights = new_castling_rights])

\* make_move: ret is "true", "false" (Ok(..)), "err" (an Err returned half way, the
\* board left as it was at that point) or "panic" (the mover has no king to test)
make_move(b0, mv) ==
    LET old_hash == b0.hash
        r1 == remove_piece_and_hash(b0, mv.from)
    IN
    IF ~r1.ok THEN [ret |-> "err", b |-> r1.b] ELSE
    LET moved_piece == r1.piece
        item0 == HistoryItem(r1.b, moved_piece, get_piece(r1.b, mv.to), old_hash)
        b2 == set_en_passant_square(hash_en_passant_square(increment_clock(r1.b)), NoSquare)
        rk == MakeKind(b2, mv, moved_piece, item0.captured_piece)
    IN
    IF ~rk.ok THEN [ret |-> "err", b |-> rk.b] ELSE
    LET b3 == MakePawnBookkeeping(rk.b, mv, moved_piece)
        b4 == MakeCastlingRights(b3, mv)
        b5 == switch_side_and_hash(b4)
        b6 == push_history(b5, [item0 EXCEPT !.captured_piece = rk.captured])
        check == is_in_check(b6, NotSide(b6.side))
    IN  [ret |-> CASE check = "panic" -> "panic" [] check = "check" -> "false"
                   [] check = "safe" -> "true",
         b |-> b6]

\* the `match mv.kind()` of unmake_move, after the moved piece is back on its square
UnmakeKind(b, mv, item) ==
    CASE mv.kind = "Quiet" -> remove_piece(b, mv.to)
      [] mv.kind = "Capture" ->
            LET rr == remove_piece(b, mv.to)
                square == IF mv.flag = "EnPassant"
                          THEN (IF b.side = "White" THEN south(mv.to) ELSE north(mv.to))
                          ELSE mv.to
            IN  IF ~rr.ok THEN rr
                ELSE LET ra == add_piece(rr.b, item.captured_piece, square)
                     IN  [ok |-> ra.ok, b |-> ra.b, piece |-> rr.piece]
      [] mv.kind = "Castle" ->
            LET rr == remove_piece(b, mv.to)
                rook_squares == CastleRookSquares(mv.to)
            IN  IF ~rr.ok \/ rook_squares = <<>> THEN [rr EXCEPT !.ok = FALSE]
                ELSE LET rook == remove_piece(rr.b, rook_squares[2])
                     IN  IF ~rook.ok THEN rook
                         ELSE LET ra == add_piece(rook.b, rook.piece, rook_squares[1])
                              IN  [ok |-> ra.ok, b |-> ra.b, piece |-> rook.piece]
      [] mv.kind = "Promotion" ->
            LET rr == remove_piece(b, mv.to)
            IN  IF ~rr.ok \/ item.captured_piece.kind = "NoPiece" THEN rr
                ELSE LET ra == add_piece(rr.b, item.captured_piece, mv.to)
                     IN  [ok |-> ra.ok, b |-> ra.b, piece |-> rr.piece]

\* a faulty restore that leaves the halfmove clock; C1_RoundTrip must tell it from
\* PopAndRestore
PopAndRestore_KeepsClock(b) ==
    LET item == b.history[Len(b.history)]
    IN  switch_side([b EXCEPT !.history = SubSeq(@, 1, Len(@) - 1),
                              !.castling_rights = item.castling_rights,
                              !.en_passant_square = item.en_passant_square,
                              !.hash = item.hash])

\* the restore both unmake_move and unmake_null_move start with
PopAndRestore(b) ==
    LET item == b.history[Len(b.history)]
    IN  switch_side([b EXCEPT !.history = SubSeq(@, 1, Len(@) - 1),
                              !.castling_rights = item.castling_rights,
                              !.en_passant_square = item.en_passant_square,
                              !.halfmove_clock = item.halfmove_clock,
                              !.hash = item.hash])

\* unmake_move: ret is "ok", "err", or "panic" (pop_history().unwrap() on an empty stack)
unmake_move(b0, mv) ==
    IF b0.history = <<>> THEN [ret |-> "panic", b |-> b0] ELSE
    LET item == b0.history[Len(b0.history)]
        b1 == PopAndRestore(b0)
        ra == add_piece(b1, item.moved_piece, mv.from)
    IN
    IF ~ra.ok THEN [ret |-> "err", b |-> ra.b] ELSE
    LET rk == UnmakeKind(ra.b, mv, item)
    IN  [ret |-> IF rk.ok THEN "ok" ELSE "err", b |-> rk.b]

\* make_null_move
make_null_move(b0) ==
    LET item == HistoryItem(b0, NoPiece, NoPiece, b0.hash)
        b1 == reset_clock(b0)
        b2 == set_en_passant_square(hash_en_passant_square(b1), NoSquare)
    IN  push_history(switch_side_and_hash(b2), item)

\* unmake_null_move
unmake_null_move(b0) == PopAndRestore(b0)

\* ------------------------------------- transposition table (transposition_table.rs)
PAWN_VALUE == 100
KNIGHT_VALUE == 300
BISHOP_VALUE == 300
ROOK_VALUE == 500
QUEEN_VALUE == 900
KING_VALUE == 0

CHECKMATE_THRESHOLD ==
    PAWN_VALUE * 8 + KNIGHT_VALUE * 8 + BISHOP_VALUE * 8 + ROOK_VALUE * 8
        + QUEEN_VALUE * 8 + KING_VALUE

INFINITY == 100000

\* SearchDepth::MAX
SearchDepth_MAX == 64

\* Move::NULL_MOVE, Move(0): a quiet move from square 0 to square 0
NULL_MOVE == MoveNew(0, 0, "Quiet", "None")

\* Option<i32>
None == [is_some |-> FALSE, value |-> 0]
Some(value) == [is_some |-> TRUE, value |-> value]

SearchEntryFlag == {"Exact", "Alpha", "Beta"}

\* SearchTableEntry::default(): hash 0 is the XOR of no Zobrist number
SearchTableEntryDefault ==
    [hash |-> {}, depth |-> 0, score |-> 0, flag |-> "Exact", best_move |-> NULL_MOVE]

\* a faulty constructor that stores the score as given; C16_MateScorePly must tell it
\* from SearchTableEntry_new
SearchTableEntry_new_Raw(hash, depth, score, ply, flag, best_move) ==
    [hash |-> hash, depth |-> depth, score |-> score, flag |-> flag,
     best_move |-> best_move]

\* SearchTableEntry::new
SearchTableEntry_new(hash, depth, score, ply, flag, best_move) ==
    LET score1 == IF score > CHECKMATE_THRESHOLD THEN score + ply ELSE score
        score2 == IF score1 < -CHECKMATE_THRESHOLD THEN score1 - ply ELSE score1
    IN  [hash |-> hash, depth |-> depth, score |-> score2, flag |-> flag,
         best_move |-> best_move]

\* a faulty get that treats every entry as Exact; C14_Usable must tell it from
\* SearchTableEntry_get
SearchTableEntry_get_AllExact(entry, hash, depth, ply, alpha, beta) ==
    IF entry.hash # hash THEN [score |-> None, best_move |-> NULL_MOVE]
    ELSE IF entry.depth < depth THEN [score |-> None, best_move |-> entry.best_move]
    ELSE LET score1 == IF entry.score > CHECKMATE_THRESHOLD
                       THEN entry.score - ply ELSE entry.score
             entry_score == IF score1 < -CHECKMATE_THRESHOLD THEN score1 + ply ELSE score1
         IN  [score |-> Some(entry_score), best_move |-> entry.best_move]

\* a faulty get that hands out the best move only together with a score;
\* C15_BestMove must tell it from SearchTableEntry_get
SearchTableEntry_get_MoveWithScore(entry, hash, depth, ply, alpha, beta) ==
    IF entry.hash # hash \/ entry.depth < depth
    THEN [score |-> None, best_move |-> NULL_MOVE]
    ELSE LET score1 == IF entry.score > CHECKMATE_THRESHOLD
                       THEN entry.score - ply ELSE entry.score
             entry_score == IF score1 < -CHECKMATE_THRESHOLD THEN score1 + ply ELSE score1
             score == CASE entry.flag = "Exact" -> Some(entry_score)
                        [] entry.flag = "Alpha" ->
                              IF alpha >= entry_score THEN Some(alpha) ELSE None
                        [] entry.flag = "Beta" ->
                              IF beta <= entry_score THEN Some(beta) ELSE None
         IN  [score |-> score,
              best_move |-> IF score.is_some THEN entry.best_move ELSE NULL_MOVE]

\* SearchTableEntry::get
SearchTableEntry_get(entry, hash, depth, ply, alpha, beta) ==
    IF entry.hash # hash THEN [score |-> None, best_move |-> NULL_MOVE]
    ELSE IF entry.depth < depth THEN [score |-> None, best_move |-> entry.best_move]
    ELSE LET score1 == IF entry.score > CHECKMATE_THRESHOLD
                       THEN entry.score - ply ELSE entry.score
             entry_score == IF score1 < -CHECKMATE_THRESHOLD THEN score1 + ply ELSE score1
         IN  [score |-> CASE entry.flag = "Exact" -> Some(entry_score)
                          [] entry.flag = "Alpha" ->
                                IF alpha >= entry_score THEN Some(alpha) ELSE None
                          [] entry.flag = "Beta" ->
                                IF beta <= entry_score THEN Some(beta) ELSE None,
              best_move |-> entry.best_move]

\* the number of entries of the table: in the program (size_in_mb * MEGABYTE) /
\* size_of::<Entry>() with size_in_mb = 64
TableSize == 8

\* TranspositionTable::new
TranspositionTable_new ==
    [entries |-> [index \in 0..(TableSize - 1) |-> SearchTableEntryDefault],
     size |-> TableSize]

RECURSIVE SumOf(_)
SumOf(S) == IF S = {} THEN 0 ELSE LET x == CHOOSE x \in S : TRUE IN x + SumOf(S \ {x})

\* `hash as usize`: a hash is kept as the set of the indices of the Zobrist numbers
\* XORed into it; the sum of the indices stands for its integer value, so that, as in
\* the program, different hashes can fall into one slot
HashAsUsize(hash) == SumOf(hash)

\* TranspositionTable::get_index
get_index(table, hash) == HashAsUsize(hash) % table.size

\* TranspositionTable::store
store(table, entry) ==
    [table EXCEPT !.entries[get_index(table, entry.hash)] = entry]

\* TranspositionTable::probe
probe(table, hash) == table.entries[get_index(table, hash)]

\* ---------------------------------------------------------- evaluation (evaluate.rs)
\* Piece::material_value
material_value(piece) ==
    CASE piece.kind = "Pawn" -> PAWN_VALUE
      [] piece.kind = "Knight" -> KNIGHT_VALUE
      [] piece.kind = "Bishop" -> BISHOP_VALUE
      [] piece.kind = "Rook" -> ROOK_VALUE
      [] piece.kind = "Queen" -> QUEEN_VALUE
      [] piece.kind = "King" -> KING_VALUE
      [] OTHER -> 0

\* the piece-square tables, as written in the source: entry i + 1 is index i

MIDDLE_GAME_PAWN_PST ==
    <<0, 0, 0, 0, 0, 0, 0, 0,
      50, 50, 50, 50, 50, 50, 50, 50,
      10, 10, 20, 30, 30, 20, 10, 10,
      5, 5, 10, 25, 25, 10, 5, 5,
      0, 0, 0, 20, 20, 0, 0, 0,
      5, -5, -10, 0, 0, -10, -5, 5,
      5, 10, 10, -20, -20, 10, 10, 5,
      0, 0, 0, 0, 0, 0, 0, 0>>

END_GAME_PAWN_PST ==
    <<0, 0, 0, 0, 0, 0, 0, 0,
      75, 72, 65, 65, 65, 65, 72, 75,
      20, 10, 10, 10, 10, 10, 10, 20,
      -5, -5, -5, -5, -5, -5, -5, -5,
      -10, -10, -10, -10, -10, -10, -10, -10,
      -10, -10, -10, -10, -10, -10, -10, -10,
      -10, -10, -10, -10, -10, -10, -10, -10,
      0, 0, 0, 0, 0, 0, 0, 0>>

MIDDLE_GAME_KNIGHT_PST ==
    <<-50, -40, -30, -30, -30, -30, -40, -50,
      -40, -20, 0, 0, 0, 0, -20, -40,
      -30, 0, 10, 15, 15, 10, 0, -30,
      -30, 5, 15, 20, 20, 15, 5, -30,
      -30, 0, 15, 20, 20, 15, 0, -30,
      -30, 5, 10, 15, 15, 10, 5, -30,
      -40, -20, 0, 5, 5, 0, -20, -40,
      -50, -40, -30, -30, -30, -30, -40, -50>>

END_GAME_KNIGHT_PST ==
    <<-50, -40, -30, -30, -30, -30, -40, -50,
      -40, -20, 0, 0, 0, 0, -20, -40,
      -30, 0, 10, 20, 20, 10, 0, -30,
      -30, 5, 15, 25, 25, 15, 5, -30,
      -30, 0, 15, 25, 25, 15, 0, -30,
      -30, 5, 10, 20, 20, 10, 5, -30,
      -40, -20, 0, 5, 5, 0, -20, -40,
      -50, -40, -30, -30, -30, -30, -40, -50>>

MIDDLE_GAME_BISHOP_PST ==
    <<-20, -10, -10, -10, -10, -10, -10, -20,
      -10, 0, 0, 0, 0, 0, 0, -10,
      -10, 0, 5, 10, 10, 5, 0, -10,
      -10, 5, 5, 25, 25, 5, 5, -10,
      -10, 0, 10, 18, 18, 10, 0, -10,
      -10, 10, 10, 10, 10, 10, 10, -10,
      -10, 5, 0, 0, 0, 0, 5, -10,
      -20, -10, -10, -10, -10, -10, -10, -20>>

END_GAME_BISHOP_PST ==
    <<-20, -10, -10, -10, -10, -10, -10, -20,
      -10, 0, 0, 0, 0, 0, 0, -10,
      -10, 0, 5, 10, 10, 5, 0, -10,
      -10, 5, 5, 10, 10, 5, 5, -10,
      -10, 0, 10, 10, 10, 10, 0, -10,
      -10, 10, 10, 10, 10, 10, 10, -10,
      -10, 7, 0, 0, 0, 0, 7, -10,
      -20, -10, -10, -10, -10, -10, -10, -20>>

MIDDLE_GAME_ROOK_PST ==
    <<0, 0, 0, 0, 0, 0, 0, 0,
      5, 10, 10, 10, 10, 10, 10, 5,
      -5, 0, 0, 0, 0, 0, 0, -5,
      -5, 0, 0, 0, 0, 0, 0, -5,
      -5, 0, 0, 0, 0, 0, 0, -5,
      -5, 0, 0, 0, 0, 0, 0, -5,
      -5, 0, 0, 0, 0, 0, 0, -5,
      0, 0, 0, 5, 5, 0, 0, 0>>

END_GAME_ROOK_PST ==
    <<20, 20, 20, 20, 20, 20, 20, 20,
      8, 8, 8, 8, 8, 8, 8, 8,
      -5, 0, 0, 0, 0, 0, 0, -5,
      -5, 0, 0, 0, 0, 0, 0, -5,
      -5, 0, 0, 0, 0, 0, 0, -5,
      -5, 0, 0, 0, 0, 0, 0, -5,
      -5, 0, 0, 0, 0, 0, 0, -5,
      0, 0, 0, 5, 5, 0, 0, 0>>

MIDDLE_GAME_KING_PST ==
    <<-30, -40, -40, -50, -50, -40, -40, -30,
      -30, -40, -40, -50, -50, -40, -40, -30,
      -30, -40, -40, -50, -50, -40, -40, -30,
      -30, -40, -40, -50, -50, -40, -40, -30,
      -20, -30, -30, -40, -40, -30, -30, -20,
      -10, -20, -20, -20, -20, -20, -20, -10,
      20, 20, 0, 0, 0, 0, 20, 20,
      20, 30, 10, 0, 0, 10, 30, 20>>

END_GAME_KING_PST ==
    <<-50, -40, -30, -20, -20, -30, -40, -50,
      -30, -20, -10, 0, 0, -10, -20, -30,
      -30, -10, 20, 30, 30, 20, -10, -30,
      -30, -10, 30, 40, 40, 30, -10, -30,
      -30, -10, 30, 40, 40, 30, -10, -30,
      -30, -10, 20, 30, 30, 20, -10, -30,
      -30, -30, 0, 0, 0, 0, -30, -30,
      -50, -30, -30, -30, -30, -30, -30, -50>>

\* FLIP_SQUARE as a table that flips nothing
FLIP_SQUARE_Identity == [i \in 1..64 |-> i - 1]

FLIP_SQUARE ==
    <<56, 57, 58, 59, 60, 61, 62, 63,
      48, 49, 50, 51, 52, 53, 54, 55,
      40, 41, 42, 43, 44, 45, 46, 47,
      32, 33, 34, 35, 36, 37, 38, 39,
      24, 25, 26, 27, 28, 29, 30, 31,
      16, 17, 18, 19, 20, 21, 22, 23,
      8, 9, 10, 11, 12, 13, 14, 15,
      0, 1, 2, 3, 4, 5, 6, 7>>

KNIGHT_PHASE == 1
BISHOP_PHASE == 1
ROOK_PHASE == 2
QUEEN_PHASE == 4
TOTAL_PHASE == KNIGHT_PHASE * 4 + BISHOP_PHASE * 4 + ROOK_PHASE * 4 + QUEEN_PHASE * 2

BISHOP_PAIR_MIDDLE_GAME_BONUS == 25
BISHOP_PAIR_END_GAME_BONUS == 50

Abs(n) == IF n < 0 THEN -n ELSE n

\* i32 `/`: the quotient is truncated towards zero
TruncDiv(a, b) == IF a >= 0 THEN a \div b ELSE -((-a) \div b)

\* Piece::middle_game_pst_value
middle_game_pst_value(piece, square) ==
    CASE piece.kind = "Pawn" -> MIDDLE_GAME_PAWN_PST[square + 1]
      [] piece.kind = "Knight" -> MIDDLE_GAME_KNIGHT_PST[square + 1]
      [] piece.kind = "Bishop" -> MIDDLE_GAME_BISHOP_PST[square + 1]
      [] piece.kind = "Rook" -> MIDDLE_GAME_ROOK_PST[square + 1]
      [] piece.kind = "King" -> MIDDLE_GAME_KING_PST[square + 1]
      [] OTHER -> 0

\* Piece::end_game_pst_value
end_game_pst_value(piece, square) ==
    CASE piece.kind = "Pawn" -> END_GAME_PAWN_PST[square + 1]
      [] piece.kind = "Knight" -> END_GAME_KNIGHT_PST[square + 1]
      [] piece.kind = "Bishop" -> END_GAME_BISHOP_PST[square + 1]
      [] piece.kind = "Rook" -> END_GAME_ROOK_PST[square + 1]
      [] piece.kind = "King" -> END_GAME_KING_PST[square + 1]
      [] OTHER -> 0

\* Board::piece_count: the number of pieces of one colour and kind on the board
piece_count(b, piece) == Cardinality(get_piece_bb(b, piece))

\* the colour of a square: 0 for the colour of a1
SquareColor(sq) == (RankOf(sq) + FileOf(sq)) % 2

\* Board::has_insufficient_material: king against king, king and one minor piece
\* against king, king and bishop against king and bishop with the bishops on squares
\* of one colour
has_insufficient_material(b) ==
    LET n(color, kind) == piece_count(b, PieceNew(color, kind))
        heavy == n("White", "Pawn") + n("Black", "Pawn") + n("White", "Rook")
                 + n("Black", "Rook") + n("White", "Queen") + n("Black", "Queen")
        knights == n("White", "Knight") + n("Black", "Knight")
        white_bishops == get_piece_bb(b, PieceNew("White", "Bishop"))
        black_bishops == get_piece_bb(b, PieceNew("Black", "Bishop"))
        bishops == Cardinality(white_bishops) + Cardinality(black_bishops)
    IN  /\ heavy = 0
        /\ \/ knights + bishops <= 1
           \/ /\ knights = 0
              /\ Cardinality(white_bishops) = 1
              /\ Cardinality(black_bishops) = 1
              /\ \A w \in white_bishops : \A k \in black_bishops :
                    SquareColor(w) = SquareColor(k)

\* Board::is_draw: the position stood twice before (the hash of the board is found
\* twice among the hashes kept on the history stack), or the halfmove clock has
\* reached 100, or the material is insufficient
is_draw(b) ==
    \/ b.halfmove_clock >= 100
    \/ Cardinality({i \in 1..Len(b.history) : b.history[i].hash = b.hash}) >= 2
    \/ has_insufficient_material(b)

RECURSIVE SumOver(_, _)
\* the sum of the function f over a set of squares
SumOver(S, f) ==
    IF S = {} THEN 0
    ELSE LET x == CHOOSE x \in S : TRUE IN f[x] + SumOver(S \ {x}, f)

\* Board::get_game_phase
get_game_phase(b) ==
    LET n(color, kind) == piece_count(b, PieceNew(color, kind))
        phase == TOTAL_PHASE
                 - (n("White", "Knight") + n("Black", "Knight")) * KNIGHT_PHASE
                 - (n("White", "Bishop") + n("Black", "Bishop")) * BISHOP_PHASE
                 - (n("White", "Rook") + n("Black", "Rook")) * ROOK_PHASE
                 - (n("White", "Queen") + n("Black", "Queen")) * QUEEN_PHASE
    IN  TruncDiv(phase * 256 + TruncDiv(TOTAL_PHASE, 2), TOTAL_PHASE)

\* Board::evaluate: the score from the point of view of the side to move
evaluate(b) ==
    IF has_insufficient_material(b) THEN 0 ELSE
    LET on(color) == {sq \in Squares : get_piece(b, sq).color = color}
        material(color) == SumOver(on(color), [sq \in Squares |-> material_value(get_piece(b, sq))])
        pair(color, bonus) ==
            IF piece_count(b, PieceNew(color, "Bishop")) >= 2 THEN bonus ELSE 0
        white_middle_game_score ==
            SumOver(on("White"),
                    [sq \in Squares |-> middle_game_pst_value(get_piece(b, sq), FLIP_SQUARE[sq + 1])])
            + pair("White", BISHOP_PAIR_MIDDLE_GAME_BONUS)
        white_end_game_score ==
            SumOver(on("White"),
                    [sq \in Squares |-> end_game_pst_value(get_piece(b, sq), FLIP_SQUARE[sq + 1])])
            + pair("White", BISHOP_PAIR_END_GAME_BONUS)
        black_middle_game_score ==
            SumOver(on("Black"), [sq \in Squares |-> middle_game_pst_value(get_piece(b, sq), sq)])
            + pair("Black", BISHOP_PAIR_MIDDLE_GAME_BONUS)
        black_end_game_score ==
            SumOver(on("Black"), [sq \in Squares |-> end_game_pst_value(get_piece(b, sq), sq)])
            + pair("Black", BISHOP_PAIR_END_GAME_BONUS)
        phase == get_game_phase(b)
        white_score ==
            material("White")
            + TruncDiv(white_middle_game_score * (256 - phase) + white_end_game_score * phase,
                       256)
        black_score ==
            material("Black")
            + TruncDiv(black_middle_game_score * (256 - phase) + black_end_game_score * phase,
                       256)
        multiplier == IF b.side = "White" THEN 1 ELSE -1
    IN  multiplier * (white_score - black_score)

\* ------------------------------------------- captures and move ordering (search.rs)
\* generate_pawn_captures: the attack loop of the pawn generator alone
PawnCapturesFrom(b, from_square) ==
    LET side == b.side
        en_passant_bb == IF b.en_passant_square = NoSquare THEN EMPTY_BB
                         ELSE {b.en_passant_square}
        enemy == occupancy(b, NotSide(side)) \cup en_passant_bb
        attacks == BitsInOrder(pawn_attacks(side)[from_square] \cap enemy)
    IN  Flatten([i \in 1..Len(attacks) |->
            IF is_promotion(side, attacks[i])
            THEN push_all_promotions(from_square, attacks[i])
            ELSE <<MoveNew(from_square, attacks[i], "Capture",
                           IF attacks[i] = b.en_passant_square THEN "EnPassant" ELSE "None")>>])

\* the inner loop of the king, knight and slider capture generators: of the squares
\* not held by the mover, the ones held by the enemy
CapturesTo(b, from_square, possible_attacks) ==
    LET targets == BitsInOrder(possible_attacks \cap BitNot(occupancy(b, b.side)))
        enemy_occupancy == occupancy(b, NotSide(b.side))
        is_capture(m) == m.to \in enemy_occupancy
    IN  SelectSeq([i \in 1..Len(targets) |->
                      MoveNew(from_square, targets[i], "Capture", "None")], is_capture)

\* generate_all_captures: pawn, king, knight, bishop, rook, queen captures in this
\* order; ret "panic" when the mover has no king to pop
generate_all_captures(b) ==
    IF KingMissing(b, b.side)
    THEN [ret |-> "panic", moves |-> <<>>]
    ELSE
    LET from(kind) == BitsInOrder(get_piece_bb(b, PieceNew(b.side, kind)))
        pawns == from("Pawn")
        king == get_lsb_square(get_piece_bb(b, PieceNew(b.side, "King")))
        knights == from("Knight")
        bishops == from("Bishop")
        rooks == from("Rook")
        queens == from("Queen")
        occupancies == AllOccupancies(b)
    IN  [ret |-> "ok",
         moves |->
            Flatten([i \in 1..Len(pawns) |-> PawnCapturesFrom(b, pawns[i])])
            \o CapturesTo(b, king, KING_ATTACKS[king])
            \o Flatten([i \in 1..Len(knights) |->
                   CapturesTo(b, knights[i], KNIGHT_ATTACKS[knights[i]])])
            \o Flatten([i \in 1..Len(bishops) |->
                   CapturesTo(b, bishops[i], get_bishop_attacks(bishops[i], occupancies))])
            \o Flatten([i \in 1..Len(rooks) |->
                   CapturesTo(b, rooks[i], get_rook_attacks(rooks[i], occupancies))])
            \o Flatten([i \in 1..Len(queens) |->
                   CapturesTo(b, queens[i], get_bishop_attacks(queens[i], occupancies)
                                            \cup get_rook_attacks(queens[i], occupancies))])]

CAPTURE_SCORE_OFFSET == 1000
TT_SCORE_OFFSET == CAPTURE_SCORE_OFFSET + 10000
FIRST_KILLER_SCORE == CAPTURE_SCORE_OFFSET - 1
SECOND_KILLER_SCORE == CAPTURE_SCORE_OFFSET - 2
COUNTER_MOVE_BONUS == 1
MAX_HISTORY_SCORE == SECOND_KILLER_SCORE - COUNTER_MOVE_BONUS - 1

\* an entry of one of the ordering tables, which list the entries written so far
Lookup(table, key, default) == IF key \in DOMAIN table THEN table[key] ELSE default

\* the table with one entry written
Put(table, key, value) ==
    [k \in DOMAIN table \cup {key} |-> IF k = key THEN value ELSE table[k]]

\* get_killer_moves: the two killers of the current ply
get_killer_moves(killers, ply) == Lookup(killers, ply, <<NULL_MOVE, NULL_MOVE>>)

\* get_history_score: the history table of the side to move
get_history_score(hist, b, mv) == Lookup(hist, <<b.side, mv.from, mv.to>>, 0)

\* get_counter_move_bonus
get_counter_move_bonus(counters, b, previous_move, mv) ==
    IF Lookup(counters, <<b.side, previous_move.from, previous_move.to>>, NULL_MOVE) = mv
    THEN COUNTER_MOVE_BONUS ELSE 0

\* the score score_moves gives one move
MoveScore(s, mv, transposition_move, previous_move) ==
    LET victim == get_piece(s.board, mv.to)
        attacker == get_piece(s.board, mv.from)
        killers == get_killer_moves(s.killer_moves, s.search_info.ply)
    IN  IF mv = transposition_move THEN TT_SCORE_OFFSET
        ELSE IF victim.kind # "NoPiece"
        THEN CAPTURE_SCORE_OFFSET + (10 * material_value(victim)) - material_value(attacker)
        ELSE IF mv = killers[1] THEN FIRST_KILLER_SCORE
        ELSE IF mv = killers[2] THEN SECOND_KILLER_SCORE
        ELSE get_history_score(s.history, s.board, mv)
             + get_counter_move_bonus(s.counter_moves, s.board, previous_move, mv)

\* score_moves: the list with a score on every move (Move::set_score keeps the 15
\* low bits); ret "panic" when one of the two assertions fails
score_moves(s, moves, transposition_move, previous_move) ==
    LET scores == [i \in 1..Len(moves) |->
                      MoveScore(s, moves[i], transposition_move, previous_move)]
    IN  IF \E i \in 1..Len(moves) : scores[i] < 0 \/ scores[i] > 2 ^ 15
        THEN [ret |-> "panic", move_list |-> <<>>]
        ELSE [ret |-> "ok",
              move_list |-> [i \in 1..Len(moves) |->
                                [mv |-> moves[i], score |-> scores[i] % (2 ^ 15)]]]

\* MoveList::pick_ordered_move: the first move of the highest score from
\* current_index on is swapped into current_index (indices from 1 here)
pick_ordered_move(move_list, current_index) ==
    LET candidates == current_index..Len(move_list)
        best_index ==
            CHOOSE i \in candidates :
                /\ \A j \in candidates : move_list[j].score <= move_list[i].score
                /\ \A j \in candidates : j < i => move_list[j].score < move_list[i].score
    IN  [move_list EXCEPT ![current_index] = move_list[best_index],
                          ![best_index] = move_list[current_index]]

\* store_killer_move: quiet moves only
store_killer_move(s, mv) ==
    LET ply == s.search_info.ply
        killers == get_killer_moves(s.killer_moves, ply)
    IN  IF mv.kind = "Capture" \/ mv = killers[1] THEN s
        ELSE [s EXCEPT !.killer_moves = Put(@, ply, <<mv, killers[1]>>)]

\* update_history_score: the entry of the move grows by depth * depth; once it is
\* above MAX_HISTORY_SCORE every entry of the side to move is halved
update_history_score(s, mv, depth) ==
    IF mv.kind = "Capture" THEN s ELSE
    LET side == s.board.side
        key == <<side, mv.from, mv.to>>
        added == Put(s.history, key, Lookup(s.history, key, 0) + depth * depth)
    IN  [s EXCEPT !.history =
            IF added[key] > MAX_HISTORY_SCORE
            THEN [k \in DOMAIN added |-> IF k[1] = side THEN added[k] \div 2 ELSE added[k]]
            ELSE added]

\* store_counter_move
store_counter_move(s, previous_move, current_move) ==
    IF current_move.kind = "Capture" THEN s
    ELSE [s EXCEPT !.counter_moves =
             Put(@, <<s.board.side, previous_move.from, previous_move.to>>, current_move)]

\* --------------------------------------------------- the timer (time_management.rs)
\* f64 division and round() of two small non-negative integers: half goes up
RoundedQuotient(time, moves_to_go) == (2 * time + moves_to_go) \div (2 * moves_to_go)

\* SearchTimer::initialize. The duration is a u128: when the subtraction of 50 goes
\* below zero a build with overflow checks panics and a build without them wraps;
\* wrapped records that the value kept is 2^128 + ms
SearchTimer_initialize(t, time_remaining, increment, moves_to_go, overflow_checks) ==
    LET mtg == IF moves_to_go.is_some THEN moves_to_go.value ELSE 30
        ms == RoundedQuotient(time_remaining.value, mtg) + increment - 50
    IN  IF ~time_remaining.is_some
        THEN [ret |-> "ok", timer |-> [t EXCEPT !.start_time = "None",
                                                !.allowed_duration = [kind |-> "Infinite"]]]
        ELSE IF ms < 0 /\ overflow_checks
        THEN [ret |-> "panic", timer |-> t]
        ELSE [ret |-> "ok",
              timer |-> [t EXCEPT !.start_time = "None",
                                  !.allowed_duration =
                                      [kind |-> "Finite", ms |-> ms, wrapped |-> ms < 0]]]

\* SearchTimer::start
SearchTimer_start(t) == [t EXCEPT !.status = "Running", !.start_time = "Some"]

\* SearchTimer::check: elapsed_reached is whether the clock has reached a duration
\* that a clock can reach; 0 ms is always reached, a wrapped duration never
SearchTimer_check(t, elapsed_reached) ==
    LET d == t.allowed_duration
        is_time_up ==
            IF d.kind = "Infinite" THEN FALSE
            ELSE IF d.wrapped THEN FALSE
            ELSE IF d.ms = 0 THEN TRUE
            ELSE elapsed_reached
    IN  IF is_time_up THEN [t EXCEPT !.status = "Stopped"] ELSE t

\* SearchTimer::is_stopped
is_stopped(t) == t.status = "Stopped"

\* ------------------------------------------------------------- the search (search.rs)
\* A search state s is the Search object with the frames of negamax and
\* quiescence_search in progress (s.stack, the root first), the locals of
\* search_position (s.iteration) and the lines printed (s.output). A frame is at
\* "enter" (called, nothing run yet), "loop" (about to take move i of its scored
\* move_list), "wait" (inside the call for move mv) or "return" (returned value). The pv of a frame is the index of the frame whose
\* current_pv it was handed, 0 for the pv of search_position.
NewFrame(kind, depth, alpha, beta, pv, previous_move) ==
    [kind |-> kind, pc |-> "enter", depth |-> depth, alpha |-> alpha, beta |-> beta,
     pv |-> pv, previous_move |-> previous_move, move_list |-> <<>>, i |-> 1,
     legal_move_count |-> 0, old_alpha |-> alpha, best_score_from_node |-> -INFINITY,
     best_move_from_node |-> NULL_MOVE, pvs_enabled |-> FALSE, mv |-> NULL_MOVE,
     current_pv |-> <<>>, full_window |-> TRUE, value |-> 0]

Top(s) == s.stack[Len(s.stack)]
SetTop(s, f) == [s EXCEPT !.stack[Len(s.stack)] = f]

\* `return Ok(value)` of the frame on top
Ret(s, value) == SetTop(s, [Top(s) EXCEPT !.pc = "return", !.value = value])

\* an Err carried up by `?` to handle_go_command, which prints it, or a panic
Fail(s, how) ==
    [s EXCEPT !.stack = <<>>, !.iteration.state = how,
              !.output = IF how = "err" THEN Append(@, [kind |-> "error"]) ELSE @]

\* pv.clear(); pv.push(mv); pv.append(&mut current_pv)
WritePv(s, pv, line) ==
    IF pv = 0 THEN [s EXCEPT !.iteration.pv = line]
    ELSE [s EXCEPT !.stack[pv].current_pv = line]

\* nodes_searched += 1 and the timer check every 2048 nodes
CountNode(s, elapsed_reached) ==
    LET nodes == s.search_info.nodes_searched + 1
    IN  [s EXCEPT !.search_info.nodes_searched = nodes,
                  !.timer = IF nodes % 2048 = 0
                            THEN SearchTimer_check(@, elapsed_reached) ELSE @]

\* get_score_string
get_score_string(score) ==
    IF Abs(score) > CHECKMATE_THRESHOLD
    THEN LET ply_to_mate == Abs(INFINITY - Abs(score))
             moves_to_mate == (ply_to_mate \div 2) + (ply_to_mate % 2)
         IN  [unit |-> "mate", value |-> moves_to_mate * (IF score < 0 THEN -1 ELSE 1)]
    ELSE [unit |-> "cp", value |-> score]

\* the transposition table stores of negamax
StoreEntry(s, f, score, flag) ==
    [s EXCEPT !.transposition_table =
        store(@, SearchTableEntry_new(s.board.hash, f.depth, score, s.search_info.ply,
                                      flag, f.best_move_from_node))]

\* a faulty call whose null window is one point wider, so that a score strictly
\* inside it exists; C40_NullWindowKeepsPv must tell it from CallChild
CallChild_WideWindow(s, full_window) ==
    LET f == Top(s)
        own == Len(s.stack)
        child ==
            IF f.kind = "quiescence"
            THEN NewFrame("quiescence", 0, -f.beta, -f.alpha, own, NULL_MOVE)
            ELSE IF full_window
            THEN NewFrame("negamax", f.depth - 1, -f.beta, -f.alpha, own, f.mv)
            ELSE NewFrame("negamax", f.depth - 1, -f.alpha - 2, -f.alpha, f.pv, f.mv)
    IN  [s EXCEPT !.stack = Append(SetTop(s, [f EXCEPT !.pc = "wait",
                                                       !.full_window = full_window]).stack,
                                   child)]

\* the call made for the move f.mv just made: the null window with the caller's own
\* pv when pvs_enabled, else the full window with current_pv
CallChild(s, full_window) ==
    LET f == Top(s)
        own == Len(s.stack)
        child ==
            IF f.kind = "quiescence"
            THEN NewFrame("quiescence", 0, -f.beta, -f.alpha, own, NULL_MOVE)
            ELSE IF full_window
            THEN NewFrame("negamax", f.depth - 1, -f.beta, -f.alpha, own, f.mv)
            ELSE NewFrame("negamax", f.depth - 1, -f.alpha - 1, -f.alpha, f.pv, f.mv)
    IN  [s EXCEPT !.stack = Append(SetTop(s, [f EXCEPT !.pc = "wait",
                                                       !.full_window = full_window]).stack,
                                   child)]

\* search_position after its loop: Ok(best_move), and handle_go_command prints it
SearchDone(s) ==
    [s EXCEPT !.iteration.state = "done",
              !.output = Append(@, [kind |-> "bestmove", mv |-> s.iteration.best_move])]

\* the body of the `for depth in 1..=max_depth` loop of search_position up to the call
\* of negamax, or the end of the loop
IterationStart(s, depth) ==
    IF depth > s.max_depth THEN SearchDone(s)
    ELSE [s EXCEPT !.iteration.depth = depth,
                   !.stack = <<NewFrame("negamax", depth, -INFINITY, INFINITY, 0, NULL_MOVE)>>]

\* a faulty search_position that takes the best move from the pv before it asks the
\* timer; C17_StoppedKeepsLastDepth must tell it from AfterIteration
AfterIteration_MoveBeforeStop(s, score) ==
    LET pv == s.iteration.pv
        best_move == IF pv # <<>> THEN pv[1] ELSE NULL_MOVE
        s1 == [s EXCEPT !.iteration.best_move = best_move]
    IN  IF is_stopped(s.timer) THEN SearchDone(s1)
        ELSE IterationStart(
                 [s1 EXCEPT !.output = Append(@, [kind |-> "info",
                                                  depth |-> s.iteration.depth,
                                                  score |-> get_score_string(score),
                                                  nodes |-> s.search_info.nodes_searched,
                                                  pv |-> pv])],
                 s.iteration.depth + 1)

\* search_position after the negamax of one iteration has returned score
AfterIteration(s, score) ==
    IF is_stopped(s.timer) THEN SearchDone(s)
    ELSE LET pv == s.iteration.pv
             best_move == IF pv # <<>> THEN pv[1] ELSE NULL_MOVE
         IN  IterationStart(
                 [s EXCEPT !.iteration.best_move = best_move,
                           !.output = Append(@, [kind |-> "info",
                                                 depth |-> s.iteration.depth,
                                                 score |-> get_score_string(score),
                                                 nodes |-> s.search_info.nodes_searched,
                                                 pv |-> pv])],
                 s.iteration.depth + 1)

\* search_position up to its first call of negamax
search_position(s) ==
    IterationStart([s EXCEPT !.search_info = [ply |-> 0, nodes_searched |-> 0],
                             !.iteration = [state |-> "searching", depth |-> 0,
                                            best_move |-> NULL_MOVE, pv |-> <<>>]],
                   1)

\* ------------------------------------------------- magic numbers (magics.rs)
\* a u64 is kept as six limbs of 11 bits, the lowest first, so that the sum of the
\* products of one column stays below 2^31
LIMB == 2048
Limbs == 6

\* MagicNumber { magic, shift, offset }
MagicNumber(magic, shift, offset) == [magic |-> magic, shift |-> shift, offset |-> offset]

\* ROOK_MAGICS, square a1 first; magic 0x0080004001802010 is the first of them
ROOK_MAGICS ==
    <<MagicNumber(<<16, 4, 6, 32, 0, 1>>, 52, 0),
      MagicNumber(<<0, 36, 256, 4, 1025, 0>>, 53, 4096),
      MagicNumber(<<0, 18, 2, 1040, 1, 1>>, 53, 6144),
      MagicNumber(<<128, 256, 20, 0, 1, 1>>, 53, 8192),
      MagicNumber(<<8, 64, 128, 2, 1, 4>>, 53, 10240),
      MagicNumber(<<2, 640, 32, 640, 0, 2>>, 53, 12288),
      MagicNumber(<<256, 0, 24, 64, 1, 49>>, 53, 14336),
      MagicNumber(<<1092, 80, 132, 770, 0, 260>>, 52, 16384),
      MagicNumber(<<1121, 81, 768, 0, 72, 274>>, 53, 20480),
      MagicNumber(<<128, 1024, 0, 32, 1320, 8>>, 54, 22528),
      MagicNumber(<<17, 32, 128, 32, 144, 9>>, 54, 23552),
      MagicNumber(<<68, 576, 128, 4, 32, 264>>, 54, 24576),
      MagicNumber(<<68, 576, 128, 4, 32, 264>>, 54, 25600),
      MagicNumber(<<5, 320, 32, 8, 544, 32>>, 54, 26624),
      MagicNumber(<<512, 128, 1024, 16, 16, 0>>, 54, 27648),
      MagicNumber(<<130, 130, 1033, 0, 32, 0>>, 53, 28672),
      MagicNumber(<<98, 0, 33, 576, 8, 0>>, 53, 30720),
      MagicNumber(<<0, 4, 64, 32, 4, 16>>, 54, 32768),
      MagicNumber(<<264, 520, 128, 128, 512, 1>>, 54, 33792),
      MagicNumber(<<0, 10, 96, 64, 136, 0>>, 54, 34816),
      MagicNumber(<<128, 256, 48, 64, 64, 1>>, 54, 35840),
      MagicNumber(<<1152, 2, 136, 64, 64, 4>>, 54, 36864),
      MagicNumber(<<528, 1456, 32, 512, 64, 24>>, 54, 37888),
      MagicNumber(<<1029, 8, 2, 256, 1424, 0>>, 53, 38912),
      MagicNumber(<<96, 16, 512, 0, 4, 1>>, 53, 40960),
      MagicNumber(<<0, 388, 256, 34, 768, 256>>, 54, 43008),
      MagicNumber(<<128, 512, 512, 80, 512, 256>>, 54, 44032),
      MagicNumber(<<640, 256, 1536, 0, 37, 32>>, 54, 45056),
      MagicNumber(<<1024, 1, 514, 1024, 512, 5>>, 54, 46080),
      MagicNumber(<<1024, 0, 514, 256, 68, 144>>, 54, 47104),
      MagicNumber(<<528, 256, 0, 130, 52, 140>>, 54, 48128),
      MagicNumber(<<132, 32, 0, 33, 128, 16>>, 53, 49152),
      MagicNumber(<<576, 1, 1, 1040, 0, 1>>, 53, 51200),
      MagicNumber(<<0, 4, 10, 1056, 8, 0>>, 54, 53248),
      MagicNumber(<<0, 2, 514, 16, 512, 65>>, 54, 54272),
      MagicNumber(<<0, 5, 2, 8, 776, 0>>, 54, 55296),
      MagicNumber(<<1024, 1, 514, 1024, 512, 5>>, 54, 56320),
      MagicNumber(<<512, 0, 6, 2, 40, 0>>, 54, 57344),
      MagicNumber(<<14, 10, 1040, 1088, 0, 17>>, 54, 58368),
      MagicNumber(<<145, 0, 168, 34, 1024, 129>>, 53, 59392),
      MagicNumber(<<0, 16, 256, 64, 66, 17>>, 53, 61440),
      MagicNumber(<<32, 64, 1089, 65, 32, 64>>, 54, 63488),
      MagicNumber(<<21, 96, 4, 528, 4, 0>>, 54, 64512),
      MagicNumber(<<10, 1088, 72, 32, 160, 0>>, 54, 65536),
      MagicNumber(<<128, 16, 32, 512, 0, 256>>, 54, 66560),
      MagicNumber(<<5, 320, 32, 8, 544, 32>>, 54, 67584),
      MagicNumber(<<66, 128, 4, 4, 13, 1>>, 54, 68608),
      MagicNumber(<<1, 832, 1, 66, 81, 128>>, 53, 69632),
      MagicNumber(<<1408, 1080, 96, 64, 1024, 16>>, 53, 71680),
      MagicNumber(<<128, 1024, 0, 32, 1320, 8>>, 54, 73728),
      MagicNumber(<<256, 672, 256, 0, 10, 0>>, 54, 74752),
      MagicNumber(<<640, 256, 1536, 0, 37, 32>>, 54, 75776),
      MagicNumber(<<128, 128, 8, 68, 40, 4>>, 54, 76800),
      MagicNumber(<<512, 1538, 1040, 4, 32, 256>>, 54, 77824),
      MagicNumber(<<1024, 526, 1056, 258, 0, 0>>, 54, 78848),
      MagicNumber(<<512, 42, 4, 74, 1088, 48>>, 53, 79872),
      MagicNumber(<<1, 16, 1033, 554, 514, 32>>, 52, 81920),
      MagicNumber(<<514, 2, 140, 192, 36, 0>>, 53, 86016),
      MagicNumber(<<514, 1040, 1286, 4, 1, 272>>, 53, 88064),
      MagicNumber(<<5, 4, 36, 0, 35, 0>>, 53, 90112),
      MagicNumber(<<1027, 0, 32, 8, 272, 64>>, 53, 92160),
      MagicNumber(<<1, 1, 16, 1, 1040, 69>>, 53, 94208),
      MagicNumber(<<4, 354, 288, 579, 4, 256>>, 53, 96256),
      MagicNumber(<<258, 8, 144, 65, 516, 0>>, 52, 98304)>>

ROOK_ATTACK_TABLE_SIZE == 102400

\* BISHOP_MAGICS, square a1 first; magic 0x0A18211014004080 is the first of them
BISHOP_MAGICS ==
    <<MagicNumber(<<128, 8, 80, 136, 386, 20>>, 58, 0),
      MagicNumber(<<1030, 260, 1036, 1090, 1540, 4>>, 59, 64),
      MagicNumber(<<0, 8, 305, 1536, 256, 8>>, 59, 96),
      MagicNumber(<<0, 0, 512, 1536, 64, 257>>, 59, 128),
      MagicNumber(<<137, 48, 9, 656, 64, 0>>, 59, 160),
      MagicNumber(<<160, 1, 256, 1090, 1032, 48>>, 59, 192),
      MagicNumber(<<0, 8, 65, 771, 4, 40>>, 59, 224),
      MagicNumber(<<0, 136, 528, 594, 528, 18>>, 58, 256),
      MagicNumber(<<68, 40, 576, 24, 257, 132>>, 59, 320),
      MagicNumber(<<513, 192, 10, 1169, 128, 12>>, 59, 352),
      MagicNumber(<<0, 18, 1040, 148, 2, 0>>, 59, 384),
      MagicNumber(<<328, 1089, 513, 1040, 0, 4>>, 59, 416),
      MagicNumber(<<0, 8, 65, 771, 4, 40>>, 59, 448),
      MagicNumber(<<2, 256, 1088, 260, 264, 0>>, 59, 480),
      MagicNumber(<<323, 72, 80, 70, 1312, 128>>, 59, 512),
      MagicNumber(<<0, 36, 8, 33, 64, 4>>, 59, 544),
      MagicNumber(<<512, 260, 128, 266, 1152, 256>>, 59, 576),
      MagicNumber(<<192, 1280, 136, 516, 256, 4>>, 59, 608),
      MagicNumber(<<256, 258, 2, 41, 256, 8>>, 57, 640),
      MagicNumber(<<512, 1064, 128, 16, 96, 0>>, 57, 768),
      MagicNumber(<<64, 256, 128, 4, 272, 0>>, 57, 896),
      MagicNumber(<<528, 512, 1060, 0, 32, 256>>, 57, 1024),
      MagicNumber(<<512, 512, 520, 1056, 34, 32>>, 59, 1152),
      MagicNumber(<<263, 392, 260, 4, 32, 0>>, 59, 1184),
      MagicNumber(<<786, 263, 1282, 1026, 264, 32>>, 59, 1216),
      MagicNumber(<<1282, 1184, 33, 66, 130, 8>>, 59, 1248),
      MagicNumber(<<128, 128, 64, 192, 8, 50>>, 57, 1280),
      MagicNumber(<<8, 8, 4, 1024, 512, 33>>, 55, 1408),
      MagicNumber(<<16, 4, 2, 512, 664, 256>>, 55, 1920),
      MagicNumber(<<0, 1537, 12, 128, 48, 0>>, 57, 2432),
      MagicNumber(<<1536, 64, 1552, 54, 64, 258>>, 59, 2560),
      MagicNumber(<<545, 128, 35, 1104, 32, 16>>, 59, 2592),
      MagicNumber(<<320, 1041, 1, 2, 34, 128>>, 59, 2624),
      MagicNumber(<<256, 512, 0, 272, 33, 16>>, 59, 2656),
      MagicNumber(<<1312, 128, 0, 36, 64, 160>>, 57, 2688),
      MagicNumber(<<128, 256, 512, 256, 144, 128>>, 55, 2816),
      MagicNumber(<<288, 64, 0, 66, 225, 256>>, 55, 3328),
      MagicNumber(<<392, 528, 1024, 2, 25, 196>>, 57, 3840),
      MagicNumber(<<128, 112, 4, 1067, 578, 0>>, 59, 3968),
      MagicNumber(<<128, 112, 4, 1067, 578, 0>>, 59, 4000),
      MagicNumber(<<1024, 2, 256, 296, 544, 0>>, 59, 4032),
      MagicNumber(<<0, 514, 40, 162, 64, 128>>, 59, 4064),
      MagicNumber(<<4, 258, 160, 18, 514, 4>>, 57, 4096),
      MagicNumber(<<520, 16, 65, 352, 32, 0>>, 57, 4224),
      MagicNumber(<<896, 32, 36, 16, 2, 8>>, 57, 4352),
      MagicNumber(<<256, 0, 520, 298, 16, 65>>, 57, 4480),
      MagicNumber(<<1536, 0, 770, 0, 133, 0>>, 59, 4608),
      MagicNumber(<<32, 2, 2, 129, 257, 0>>, 59, 4640),
      MagicNumber(<<0, 8, 65, 771, 4, 40>>, 59, 4672),
      MagicNumber(<<0, 256, 8, 44, 80, 0>>, 59, 4704),
      MagicNumber(<<16, 1088, 1056, 17, 512, 320>>, 59, 4736),
      MagicNumber(<<0, 136, 528, 594, 528, 18>>, 59, 4768),
      MagicNumber(<<8, 64, 136, 584, 289, 64>>, 59, 4800),
      MagicNumber(<<8, 64, 136, 584, 289, 64>>, 59, 4832),
      MagicNumber(<<160, 17, 8, 296, 512, 129>>, 59, 4864),
      MagicNumber(<<1030, 260, 1036, 1090, 1540, 4>>, 59, 4896),
      MagicNumber(<<0, 136, 528, 594, 528, 18>>, 58, 4928),
      MagicNumber(<<0, 36, 8, 33, 64, 4>>, 59, 4992),
      MagicNumber(<<1096, 256, 1288, 512, 8, 1>>, 59, 5024),
      MagicNumber(<<521, 64, 1025, 1032, 512, 0>>, 59, 5056),
      MagicNumber(<<521, 64, 1088, 0, 20, 0>>, 59, 5088),
      MagicNumber(<<258, 388, 128, 82, 64, 146>>, 59, 5120),
      MagicNumber(<<68, 40, 576, 24, 257, 132>>, 59, 5152),
      MagicNumber(<<128, 8, 80, 136, 386, 20>>, 58, 5184)>>

BISHOP_ATTACK_TABLE_SIZE == 5248

\* Bitboard.0 as limbs
BitboardLimbs(bb) ==
    [k \in 1..Limbs |->
        SumOf({2 ^ (sq % 11) : sq \in {s \in bb : s \div 11 = k - 1}})]

\* one column of the long multiplication: the products of limbs whose places add up
\* to k
MulColumn(a, b, k) ==
    SumOver(0..k, [i \in 0..k |-> a[i + 1] * b[k - i + 1]])

RECURSIVE MulFrom(_, _, _, _, _)
\* the limbs of a * b from limb k on, carry being what the lower columns hand up
MulFrom(a, b, k, carry, limbs) ==
    IF k = Limbs THEN limbs
    ELSE MulFrom(a, b, k + 1, (MulColumn(a, b, k) + carry) \div LIMB,
                 Append(limbs, (MulColumn(a, b, k) + carry) % LIMB))

\* a faulty product that drops the carries between the limbs; C27_LookupIsRayWalk
\* must tell it from wrapping_mul
wrapping_mul_NoCarry(a, b) ==
    [k \in 1..Limbs |-> MulColumn(a, b, k - 1) % (IF k = Limbs THEN 512 ELSE LIMB)]

\* u64::wrapping_mul: the product modulo 2^64; the top limb holds bits 55 to 63
wrapping_mul(a, b) ==
    [MulFrom(a, b, 0, 0, <<>>) EXCEPT ![Limbs] = @ % 512]

\* `hash >> shift` as usize, for the shifts of the magics, all between 52 and 59: the
\* bits from 44 up are the two top limbs
ShiftRight(hash, shift) == (hash[6] * LIMB + hash[5]) \div (2 ^ (shift - 44))

\* MagicNumber::get_magic_index
get_magic_index(magic_number, blockers) ==
    LET hash == wrapping_mul(magic_number.magic, BitboardLimbs(blockers))
        index == ShiftRight(hash, magic_number.shift)
    IN  index + magic_number.offset

\* the highest square of a bitboard
HighestBit(bb) == CHOOSE sq \in bb : \A other \in bb : other <= sq

RECURSIVE FillAttacks(_, _, _, _, _)
\* the loop of init_rook_attacks and init_bishop_attacks for one square: for every
\* subset of the mask, in the order of `blockers = (blockers - mask) & mask`, the ray
\* walk is written at the magic index; a later write replaces an earlier one.  The
\* subsets with the highest square of rest come after those without it.
FillAttacks(square, magic, directions, rest, blockers) ==
    IF rest = {}
    THEN get_magic_index(magic, blockers)
            :> generate_sliding_attack_mask(square, blockers, directions)
    ELSE FillAttacks(square, magic, directions, rest \ {HighestBit(rest)},
                     blockers \cup {HighestBit(rest)})
         @@ FillAttacks(square, magic, directions, rest \ {HighestBit(rest)}, blockers)

\* the entries init_rook_attacks writes for one square; magic.blocker_mask is the
\* blocker mask of the square
init_rook_attacks(square) ==
    FillAttacks(square, ROOK_MAGICS[square + 1], ROOK_DIRECTIONS,
                ROOK_BLOCKER_MASK[square], EMPTY_BB)

init_bishop_attacks(square) ==
    FillAttacks(square, BISHOP_MAGICS[square + 1], BISHOP_DIRECTIONS,
                BISHOP_BLOCKER_MASK[square], EMPTY_BB)

\* the magic index the move generator looks up for a slider on a square: the index of
\* the occupancy cut down to the blocker mask of the square
RookMagicIndex(square, occupancies) ==
    get_magic_index(ROOK_MAGICS[square + 1], occupancies \cap ROOK_BLOCKER_MASK[square])

BishopMagicIndex(square, occupancies) ==
    get_magic_index(BISHOP_MAGICS[square + 1],
                    occupancies \cap BISHOP_BLOCKER_MASK[square])

\* ------------------------------------------------------------- perft (perft.rs)
\* PerftTableEntry::default()
PerftTableEntryDefault == [hash |-> {}, node_count |-> 0, depth |-> 0]

\* PerftTableEntry::new
PerftTableEntry_new(hash, node_count, depth) ==
    [hash |-> hash, node_count |-> node_count, depth |-> depth]

\* TranspositionTable::<PerftTableEntry>::new
PerftTable_new ==
    [entries |-> [index \in 0..(TableSize - 1) |-> PerftTableEntryDefault],
     size |-> TableSize]

\* what a perft call hands back: Ok(nodes) or the error that `?` passes up, with the
\* board and the table as the call left them
PerftResult(ret, nodes, b, table) == [ret |-> ret, nodes |-> nodes, b |-> b, table |-> table]

RECURSIVE perft(_, _, _)
\* one turn of the loop of perft: make_move, the count of the subtree if the move was
\* legal, unmake_move; counted is the result so far
PerftMove(counted, depth, mv) ==
    CHOOSE result \in
        {IF made_move.ret \in {"err", "panic"}
         THEN PerftResult(made_move.ret, counted.nodes, made_move.b, counted.table)
         ELSE CHOOSE after \in
             {IF child.ret # "ok" THEN child
              ELSE CHOOSE rest \in
                  {IF unmade.ret # "ok"
                   THEN PerftResult("err", counted.nodes, unmade.b, child.table)
                   ELSE PerftResult("ok", counted.nodes + child.nodes, unmade.b,
                                    child.table)
                   : unmade \in {unmake_move(child.b, mv)}} : TRUE
              : child \in {IF made_move.ret = "true"
                           THEN perft(made_move.b, depth - 1, counted.table)
                           ELSE PerftResult("ok", 0, made_move.b, counted.table)}} : TRUE
         : made_move \in {make_move(counted.b, mv)}} : TRUE

RECURSIVE PerftMoves(_, _, _, _)
\* the loop of perft over the move list, from move i on; an error ends it
PerftMoves(counted, depth, moves, i) ==
    IF i > Len(moves) \/ counted.ret # "ok" THEN counted
    ELSE PerftMoves(PerftMove(counted, depth, moves[i]), depth, moves, i + 1)

\* perft
perft(b, depth, table) ==
    IF depth = 0 THEN PerftResult("ok", 1, b, table) ELSE
    CHOOSE result \in
        {IF entry.depth = depth /\ entry.hash = b.hash
         THEN PerftResult("ok", entry.node_count, b, table)
         ELSE CHOOSE stored \in
             {IF move_list.ret # "ok" THEN PerftResult(move_list.ret, 0, b, table)
              ELSE CHOOSE after_loop \in
                  {IF counted.ret # "ok" THEN counted
                   ELSE PerftResult("ok", counted.nodes, counted.b,
                            store(counted.table,
                                  PerftTableEntry_new(counted.b.hash, counted.nodes, depth)))
                   : counted \in {PerftMoves(PerftResult("ok", 0, b, table), depth,
                                             move_list.moves, 1)}} : TRUE
              : move_list \in {generate_all_moves(b)}} : TRUE
         : entry \in {probe(table, b.hash)}} : TRUE

\* --------------------------------------------- the position command (make_move.rs)
\* impl TryFrom<char> for PieceKind: the lowercase piece character that ends a
\* promotion string; "Err" for any other character
PieceKindFromChar(ch) ==
    CASE ch = "p" -> "Pawn" [] ch = "n" -> "Knight" [] ch = "b" -> "Bishop"
      [] ch = "r" -> "Rook" [] ch = "q" -> "Queen" [] ch = "k" -> "King"
      [] OTHER -> "Err"

\* impl From<MoveFlag> for PieceKind, for the four promotion flags
PieceKindFromFlag(flag) == PromotionPiece("White", flag).kind

\* get_move_metadata: ret is "ok", "err" or "panic" (the rank character '0' in a build
\* with overflow checks); promotion is None or Some(kind)
get_move_metadata(move_str, overflow_checks) ==
    IF Len(move_str) < 4 THEN [ret |-> "err"] ELSE
    LET from_file == FileFromChar(Char(move_str, 1)) IN
    IF from_file = -1 THEN [ret |-> "err"] ELSE
    LET from_rank == RankFromChar(Char(move_str, 2), overflow_checks) IN
    IF from_rank < 0 THEN [ret |-> IF from_rank = -2 THEN "panic" ELSE "err"] ELSE
    LET to_file == FileFromChar(Char(move_str, 3)) IN
    IF to_file = -1 THEN [ret |-> "err"] ELSE
    LET to_rank == RankFromChar(Char(move_str, 4), overflow_checks) IN
    IF to_rank < 0 THEN [ret |-> IF to_rank = -2 THEN "panic" ELSE "err"] ELSE
    LET promotion == IF Len(move_str) >= 5 THEN PieceKindFromChar(Char(move_str, 5))
                     ELSE "None"
    IN  IF promotion = "Err" THEN [ret |-> "err"]
        ELSE [ret |-> "ok", from |-> SquareNew(from_rank, from_file),
              to |-> SquareNew(to_rank, to_file),
              promotion |-> IF promotion = "None" THEN None ELSE Some(promotion)]

RECURSIVE CollectMetadata(_, _, _)
\* `.map(get_move_metadata).collect()`: the metadata of every string, or the first Err
CollectMetadata(move_strs, i, overflow_checks) ==
    IF i > Len(move_strs) THEN [ret |-> "ok", moves |-> <<>>]
    ELSE LET metadata == get_move_metadata(move_strs[i], overflow_checks) IN
         IF metadata.ret # "ok" THEN [ret |-> metadata.ret, moves |-> <<>>]
         ELSE LET rest == CollectMetadata(move_strs, i + 1, overflow_checks) IN
              IF rest.ret # "ok" THEN rest
              ELSE [ret |-> "ok", moves |-> <<metadata>> \o rest.moves]

RECURSIVE FirstMatch(_, _, _)
\* the `for possible_move in possible_moves` loop of find_matching_move from move i on
FirstMatch(possible_moves, i, move_metadata) ==
    IF i > Len(possible_moves) THEN [ret |-> "none"]
    ELSE LET possible_move == possible_moves[i] IN
         IF possible_move.from = move_metadata.from /\ possible_move.to = move_metadata.to
         THEN IF possible_move.kind = "Promotion"
              THEN IF ~move_metadata.promotion.is_some THEN [ret |-> "panic"]
                   ELSE IF move_metadata.promotion.value = PieceKindFromFlag(possible_move.flag)
                   THEN [ret |-> "some", mv |-> possible_move]
                   ELSE FirstMatch(possible_moves, i + 1, move_metadata)
              ELSE [ret |-> "some", mv |-> possible_move]
         ELSE FirstMatch(possible_moves, i + 1, move_metadata)

\* find_matching_move: ret is "some" with the move, "none", or "panic" (the unwrap of
\* generate_all_moves, the expect of the promotion piece)
find_matching_move(b, move_metadata) ==
    CHOOSE found_move \in
        {IF possible_moves.ret # "ok" THEN [ret |-> "panic"]
         ELSE FirstMatch(possible_moves.moves, 1, move_metadata)
         : possible_moves \in {generate_all_moves(b)}} : TRUE

\* ------------------------------------------------------------ the state machine
\* board: the Board; last: the last call on it and what it returned; fen: the string
\* handed to the last parse_fen; made: the caller's moves made and not yet unmade
\* (what search, perft and the UCI position command hold while they recurse or loop);
\* seen: the boards the caller saw before each of those makes, seen[i] before made[i]
\* (kept after the unmake until the next make at that depth)
VARIABLES board, last, fen, made, seen

\* the Search object around the board (search.rs): its transposition table, node and
\* ply counters, timer, depth limit and the three ordering tables; stack: the frames
\* of negamax and quiescence_search in progress; iteration: the locals of
\* search_position; output: the lines written to stdout
VARIABLES transposition_table, search_info, timer, max_depth, killer_moves, history,
          counter_moves, stack, iteration, output

searchVars ==
    <<transposition_table, search_info, timer, max_depth, killer_moves, history,
      counter_moves, stack, iteration, output>>

vars == <<board, last, fen, made, seen, searchVars>>

\* the FEN strings the model feeds to parse_fen: legal positions with castling,
\* en-passant and promotion in reach, well-formed FENs of positions no game reaches,
\* and malformed strings
Fens ==
    {"4k2r/8/8/8/8/8/8/R3K3 w Qk - 0 1",
     "4k3/8/8/8/3p4/8/4P3/4K3 w - - 5 1",
     "3n4/4P3/8/8/8/8/k7/4K3 w - - 0 1",
     "4k3/8/8/8/3Pp3/8/8/4K3 b - d3 0 1",
     "4k3/8/8/4p3/3P4/8/8/4K3 w - e6 0 1",
     "7k/8/4n3/r2Pp2K/8/8/8/8 w - e6 0 1",
     "8/8/8/3Pk3/8/8/8/4K3 w - e6 0 1",
     "4k3/8/8/8/8/7p/P7/5K2 w - - 0 1",
     "4k3/8/8/8/8/8/8/4K3 w K - 0 1",
     "k4r2/8/8/8/8/8/8/4K2R b K - 0 1",
     "4k3/8/8/8/8/8/5n2/4K2R b K - 0 1",
     "8/8/8/8/8/8/8/4K3 w - - 0 1",
     "4k3/8/8/8/8/8/8/8 w - - 0 1",
     "4k3/8/8/8/8/8/8/4K2 w - - 0 1",
     "4k3/8/8/8/8/8/8/4K3 white - - 0 1",
     "4k3/8/8/8/8/8/8/4K3 w - e9 0 1",
     "4k3/8/8/8/8/8/8/4K3 w - e0 0 1",
     "4k3/8/8/8/8/8/8/4K3 x - - 0 1",
     "4k3/8/8/8/8/8/8/4K3 w Kx - 0 1",
     "4k3/8/8/8/8/8/8/4K3 w - - x 1",
     "4k3/8/8/8/8/8/8/4K3 w - -",
     "4k3/8/8/8/8/8/4K3 w - - 0 1",
     "4k3/8/8/8/8/8/8/4K3P w - - 0 1"}

NullMove == [from |-> 0, to |-> 0, kind |-> "Null", flag |-> "None"]

\* SearchTimer::default
SearchTimerDefault ==
    [start_time |-> "None", allowed_duration |-> [kind |-> "Infinite"],
     status |-> "Stopped"]

\* the fields of Search::default() other than the board; killer_moves, history and
\* counter_moves list the entries written so far, every other entry being the null
\* move or 0
InitSearch ==
    /\ transposition_table = TranspositionTable_new
    /\ search_info = [ply |-> 0, nodes_searched |-> 0]
    /\ timer = SearchTimerDefault
    /\ max_depth = SearchDepth_MAX
    /\ killer_moves = <<>>
    /\ history = <<>>
    /\ counter_moves = <<>>
    /\ stack = <<>>
    /\ iteration = [state |-> "idle", depth |-> 0, best_move |-> NULL_MOVE, pv |-> <<>>]
    /\ output = <<>>

Init ==
    /\ board = BoardDefault
    /\ last = [op |-> "new", ret |-> "ok"]
    /\ fen = ""
    /\ made = <<>>
    /\ seen = <<>>
    /\ InitSearch

\* a panic ends the process; an Err of make_move or unmake_move aborts the search or
\* the command that made the call
Crashed == last.ret = "panic" \/ (last.ret = "err" /\ last.op # "parse_fen")

\* moves are made on a position that was loaded: the last parse_fen succeeded
Loaded == last.op # "new" /\ last.ret \notin {"err", "panic"}

\* after a make that returned false every caller unmakes before anything else
MustUnmake == last.op = "make_move" /\ last.ret = "false"

ParseFen(f, overflow_checks) ==
    /\ ~Crashed
    /\ Len(made) <= MaxParsePly
    /\ \E r \in {parse_fen(board, f, overflow_checks)} :
          /\ board' = r.b
          /\ last' = [op |-> "parse_fen", ret |-> r.ret]
    /\ fen' = f
    /\ made' = <<>>
    /\ seen' = <<>>
    /\ UNCHANGED searchVars

\* generate_all_moves on a board whose side to move has no king
GenerateAllMovesPanics ==
    /\ Loaded /\ ~MustUnmake
    /\ generate_all_moves(board).ret = "panic"
    /\ last' = [op |-> "generate_all_moves", ret |-> "panic"]
    /\ UNCHANGED <<board, fen, made, seen>>
    /\ UNCHANGED searchVars

\* generate_all_moves, then make_move of one move of the list
MakeMove ==
    /\ Loaded /\ ~MustUnmake
    /\ Len(made) < MaxPly
    /\ generate_all_moves(board).ret = "ok"
    /\ \E i \in 1..Len(generate_all_moves(board).moves) :
          \E mv \in {generate_all_moves(board).moves[i]} :
             \E r \in {make_move(board, mv)} :
                /\ board' = r.b
                /\ last' = [op |-> "make_move", ret |-> r.ret]
                /\ made' = Append(made, mv)
    /\ seen' = Append(SubSeq(seen, 1, Len(made)), board)
    /\ UNCHANGED fen
    /\ UNCHANGED searchVars

UnmakeMove ==
    /\ Loaded
    /\ made # <<>>
    /\ made[Len(made)].kind # "Null"
    /\ \E r \in {unmake_move(board, made[Len(made)])} :
          /\ board' = r.b
          /\ last' = [op |-> "unmake_move", ret |-> r.ret]
    /\ made' = SubSeq(made, 1, Len(made) - 1)
    /\ UNCHANGED <<fen, seen>>
    /\ UNCHANGED searchVars

MakeNullMove ==
    /\ Loaded /\ ~MustUnmake
    /\ Len(made) < MaxPly
    /\ board' = make_null_move(board)
    /\ last' = [op |-> "make_null_move", ret |-> "ok"]
    /\ made' = Append(made, NullMove)
    /\ seen' = Append(SubSeq(seen, 1, Len(made)), board)
    /\ UNCHANGED fen
    /\ UNCHANGED searchVars

UnmakeNullMove ==
    /\ Loaded
    /\ made # <<>>
    /\ made[Len(made)].kind = "Null"
    /\ board' = unmake_null_move(board)
    /\ last' = [op |-> "unmake_null_move", ret |-> "ok"]
    /\ made' = SubSeq(made, 1, Len(made) - 1)
    /\ UNCHANGED <<fen, seen>>
    /\ UNCHANGED searchVars

Next ==
    \/ \E f \in Fens, overflow_checks \in BOOLEAN : ParseFen(f, overflow_checks)
    \/ GenerateAllMovesPanics
    \/ MakeMove
    \/ UnmakeMove
    \/ MakeNullMove
    \/ UnmakeNullMove

Spec == Init /\ [][Next]_vars


\* ------------------------------------------- the transposition table on its own
\* the entries and probes the model hands to the table: two hashes that share a slot,
\* depths below and above each other, plain scores, the checkmate threshold and mate
\* scores either side of it, plies that differ between store and probe
TableHashes == {{3}, {3 + TableSize}}
TableDepths == {1, 2}
TableScores ==
    {50, CHECKMATE_THRESHOLD, CHECKMATE_THRESHOLD + 1, -CHECKMATE_THRESHOLD - 1,
     INFINITY - 10, -INFINITY + 10}
StorePlies == {0, 3}
ProbePlies == {0, 5}
TableMoves == {NULL_MOVE, MoveNew(12, 28, "Quiet", "None")}
Windows ==
    {<<-INFINITY, INFINITY>>, <<0, 100>>, <<INFINITY - 10, INFINITY>>,
     <<-INFINITY, -INFINITY + 10>>}

boardVars == <<board, fen, made, seen>>

tableFrame ==
    <<search_info, timer, max_depth, killer_moves, history, counter_moves, stack,
      iteration, output>>

\* transposition_table.store(SearchTableEntry::new(..))
Store(hash, depth, score, ply, flag, best_move) ==
    /\ transposition_table' =
          store(transposition_table,
                SearchTableEntry_new(hash, depth, score, ply, flag, best_move))
    /\ last' = [op |-> "store", ret |-> "ok", hash |-> hash, depth |-> depth,
                score |-> score, ply |-> ply, flag |-> flag, best_move |-> best_move]
    /\ UNCHANGED <<boardVars, tableFrame>>

\* transposition_table.probe(hash).get(hash, depth, ply, alpha, beta); `entry` is the
\* entry the probe found in the slot
Probe(hash, depth, ply, alpha, beta) ==
    /\ \E entry \in {probe(transposition_table, hash)} :
          \E r \in {SearchTableEntry_get(entry, hash, depth, ply, alpha, beta)} :
             last' = [op |-> "get", ret |-> "ok", hash |-> hash, depth |-> depth,
                      ply |-> ply, alpha |-> alpha, beta |-> beta, entry |-> entry,
                      score |-> r.score, best_move |-> r.best_move]
    /\ UNCHANGED <<transposition_table, boardVars, tableFrame>>

NextTable ==
    \/ \E hash \in TableHashes, depth \in TableDepths, score \in TableScores,
          ply \in StorePlies, flag \in SearchEntryFlag, best_move \in TableMoves :
          Store(hash, depth, score, ply, flag, best_move)
    \/ \E hash \in TableHashes, depth \in TableDepths, ply \in ProbePlies,
          window \in Windows :
          Probe(hash, depth, ply, window[1], window[2])

SpecTable == Init /\ [][NextTable]_vars

\* --------------------------------------------- the UCI loop and the search (uci.rs)
\* the positions the model hands to the `position fen` command: two endgames, a
\* position whose exchanges take the first iteration past 2048 nodes and one in which
\* a pawn promotes by taking a piece
SearchFens ==
    {"4k3/8/8/8/3p4/8/4P3/4K3 w - - 5 1",
     "7k/8/8/8/8/8/R7/K7 w - - 0 1",
     "k7/8/1rrrrr2/1RRRRR2/8/8/8/K7 w - - 0 1",
     "1n5k/P7/8/8/8/8/8/K7 b - - 0 1"}

\* the arguments of the `go` commands of the model, depth always given: no clock; a
\* duration of 0 ms; a duration below 0; a duration of 10 ms
GoArgs ==
    {[depth |-> 2, wtime |-> None, btime |-> None, winc |-> 0, binc |-> 0,
      movestogo |-> None],
     [depth |-> 4, wtime |-> Some(1500), btime |-> Some(1500), winc |-> 0, binc |-> 0,
      movestogo |-> None],
     [depth |-> 1, wtime |-> Some(300), btime |-> Some(300), winc |-> 0, binc |-> 0,
      movestogo |-> None],
     [depth |-> 1, wtime |-> Some(100), btime |-> Some(100), winc |-> 10, binc |-> 10,
      movestogo |-> Some(2)]}

\* the `go` commands one run of the model sends
MaxGo == 1

\* the Search object and the search in progress as one record
SearchState ==
    [board |-> board, transposition_table |-> transposition_table,
     search_info |-> search_info, timer |-> timer, max_depth |-> max_depth,
     killer_moves |-> killer_moves, history |-> history, counter_moves |-> counter_moves,
     stack |-> stack, iteration |-> iteration, output |-> output]

\* the step that leads to search state n
Becomes(n) ==
    /\ board' = n.board
    /\ transposition_table' = n.transposition_table
    /\ search_info' = n.search_info
    /\ timer' = n.timer
    /\ max_depth' = n.max_depth
    /\ killer_moves' = n.killer_moves
    /\ history' = n.history
    /\ counter_moves' = n.counter_moves
    /\ stack' = n.stack
    /\ iteration' = n.iteration
    /\ output' = n.output

\* The operators below are the code of negamax and quiescence_search as steps of the
\* state machine, each from the search state s: a call runs from its first line to
\* its move loop or its return, the loop runs to the next recursive call or to the
\* return, and a caller whose call has returned runs to its loop again or returns.

\* negamax and quiescence_search after their move loop
AfterLoop(s) ==
    \E f \in {Top(s)} :
       IF f.kind = "quiescence" THEN Becomes(Ret(s, f.alpha))
       ELSE IF f.legal_move_count = 0
       THEN \E check \in {is_in_check(s.board, s.board.side)} :
               IF check = "panic" THEN Becomes(Fail(s, "panic"))
               ELSE IF check = "check" THEN Becomes(Ret(s, -INFINITY + s.search_info.ply))
               ELSE Becomes(Ret(s, 0))
       ELSE \E stored \in {StoreEntry(s, f, f.alpha,
                                      IF f.alpha = f.old_alpha THEN "Alpha" ELSE "Exact")} :
               Becomes(Ret(stored, f.alpha))

RECURSIVE MoveLoop(_)
\* the `for i in 0..move_list.length()` loop from move f.i up to the next recursive
\* call or the end of the loop: illegal moves are made and unmade on the way
MoveLoop(s) ==
    \E f \in {Top(s)} :
       IF f.i > Len(f.move_list) THEN AfterLoop(s) ELSE
       \E move_list \in {pick_ordered_move(f.move_list, f.i)} :
       \E mv \in {move_list[f.i].mv} :
       \E made_move \in {make_move(s.board, mv)} :
          IF made_move.ret \in {"err", "panic"}
          THEN Becomes(Fail([s EXCEPT !.board = made_move.b], made_move.ret))
          ELSE IF made_move.ret = "false"
          THEN \E unmade \in {unmake_move(made_move.b, mv)} :
                  IF unmade.ret # "ok"
                  THEN Becomes(Fail([s EXCEPT !.board = unmade.b], unmade.ret))
                  ELSE \E next \in {SetTop([s EXCEPT !.board = unmade.b],
                                           [f EXCEPT !.move_list = move_list,
                                                     !.i = f.i + 1])} :
                          MoveLoop(next)
          ELSE \E made_state \in
                  {SetTop([s EXCEPT !.board = made_move.b,
                                    !.search_info.ply = (@ + 1) % 256],
                          [f EXCEPT !.move_list = move_list, !.mv = mv,
                                    !.current_pv = <<>>,
                                    !.legal_move_count =
                                        IF f.kind = "negamax" THEN @ + 1 ELSE @])} :
               \E called \in {CallChild(made_state, ~f.pvs_enabled)} :
                  Becomes(called)

\* quiescence_search from its first line to its move loop or its return
QuiescenceEnter(s0, elapsed_reached) ==
    \E s \in {CountNode(s0, elapsed_reached)} :
    \E f \in {Top(s)} :
       IF is_stopped(s.timer) THEN Becomes(Ret(s, 0)) ELSE
       \E stand_pat \in {evaluate(s.board)} :
          IF s.search_info.ply >= SearchDepth_MAX THEN Becomes(Ret(s, stand_pat))
          ELSE IF stand_pat >= f.beta THEN Becomes(Ret(s, f.beta)) ELSE
          \E alpha \in {IF stand_pat > f.alpha THEN stand_pat ELSE f.alpha} :
          \E captures \in {generate_all_captures(s.board)} :
             IF captures.ret # "ok" THEN Becomes(Fail(s, captures.ret)) ELSE
             \E scored \in {score_moves(s, captures.moves, NULL_MOVE, NULL_MOVE)} :
                IF scored.ret # "ok" THEN Becomes(Fail(s, scored.ret)) ELSE
                Becomes(SetTop(s, [f EXCEPT !.alpha = alpha,
                                            !.move_list = scored.move_list,
                                            !.i = 1, !.pc = "loop"]))

\* negamax from its first line to its move loop or its return
NegamaxEnter(s0, elapsed_reached) ==
    \E check \in {is_in_check(s0.board, s0.board.side)} :
       IF check = "panic" THEN Becomes(Fail(s0, "panic")) ELSE
       \E f \in {[Top(s0) EXCEPT !.depth = IF check = "check" THEN @ + 1 ELSE @]} :
          IF f.depth = 0
          THEN \E horizon \in {SetTop(s0, [f EXCEPT !.kind = "quiescence"])} :
                  QuiescenceEnter(horizon, elapsed_reached)
          ELSE
          \E entry \in {probe(s0.transposition_table, s0.board.hash)} :
          \E found \in {SearchTableEntry_get(entry, s0.board.hash, f.depth,
                                             s0.search_info.ply, f.alpha, f.beta)} :
             IF found.score.is_some /\ s0.search_info.ply # 0
             THEN Becomes(Ret(s0, found.score.value)) ELSE
             \E s \in {CountNode(s0, elapsed_reached)} :
                IF is_stopped(s.timer) THEN Becomes(Ret(s, 0))
                ELSE IF s.search_info.ply # 0 /\ is_draw(s.board) THEN Becomes(Ret(s, 0))
                ELSE
                \E generated \in {generate_all_moves(s.board)} :
                   IF generated.ret # "ok" THEN Becomes(Fail(s, generated.ret)) ELSE
                   \E scored \in {score_moves(s, generated.moves, found.best_move,
                                              f.previous_move)} :
                      IF scored.ret # "ok" THEN Becomes(Fail(s, scored.ret)) ELSE
                      Becomes(SetTop(s, [f EXCEPT !.move_list = scored.move_list,
                                                  !.i = 1, !.pc = "loop"]))

\* a faulty caller that forgets the decrement of the ply; C37_SearchRestoresBoard
\* must tell it from Unwound
Unwound_KeepsPly(s, b) == [s EXCEPT !.board = b]

\* `self.board.unmake_move(mv)?; self.search_info.ply -= 1;` with b the board the
\* unmake left
Unwound(s, b) == [s EXCEPT !.board = b, !.search_info.ply = (@ + 255) % 256]

\* the caller's code after the call for move f.mv has returned score: unmake, the
\* cutoff and the pv update, then back to the loop for the next move
AfterChild(s0, score) ==
    \E f0 \in {Top(s0)} :
    \E mv \in {f0.mv} :
    \E f \in {IF f0.kind = "negamax" /\ score > f0.best_score_from_node
              THEN [f0 EXCEPT !.best_score_from_node = score, !.best_move_from_node = mv]
              ELSE f0} :
    \E unmade \in {unmake_move(s0.board, mv)} :
    \E s \in {Unwound(s0, unmade.b)} :
       IF unmade.ret # "ok" THEN Becomes(Fail(s, unmade.ret))
       ELSE IF score >= f.beta
       THEN IF f.kind = "quiescence" THEN Becomes(Ret(s, f.beta))
            ELSE \E stored \in {StoreEntry(s, f, f.beta, "Beta")} :
                 \E with_killer \in {store_killer_move(stored, mv)} :
                 \E with_history \in {update_history_score(with_killer, mv, f.depth)} :
                 \E with_counter \in {store_counter_move(with_history, f.previous_move,
                                                         mv)} :
                 \E cut \in {SetTop(with_counter, f)} :
                    Becomes(Ret(cut, f.beta))
       ELSE IF score > f.alpha
       THEN \E raised \in {SetTop(s, [f EXCEPT !.alpha = score, !.i = f.i + 1,
                                               !.pvs_enabled = f.kind = "negamax",
                                               !.pc = "loop"])} :
               Becomes(WritePv(raised, f.pv, <<mv>> \o f.current_pv))
       ELSE Becomes(SetTop(s, [f EXCEPT !.i = f.i + 1, !.pc = "loop"]))

\* the frame on top has returned: its caller goes on, with the full-window search
\* again after a null-window search that fell inside the window; the root returns to
\* search_position
FrameReturned(s0) ==
    \E value \in {Top(s0).value} :
    \E s \in {[s0 EXCEPT !.stack = SubSeq(@, 1, Len(@) - 1)]} :
       IF s.stack = <<>> THEN \E n \in {AfterIteration(s, value)} : Becomes(n)
       ELSE IF Top(s).kind = "negamax" /\ ~Top(s).full_window
               /\ -value > Top(s).alpha /\ -value < Top(s).beta
       THEN Becomes(CallChild(s, TRUE))
       ELSE AfterChild(s, -value)

\* the UCI loop reads the next command: no search is running and nothing has panicked
Idle == iteration.state \notin {"searching", "panic"} /\ last.ret # "panic"

Goes == IF "goes" \in DOMAIN last THEN last.goes ELSE 0

\* handle_position_command returns: ret is "ok", "invalid_fen", "invalid_move",
\* "illegal" (the three lines it prints when it rejects the command) or "panic"; b is
\* the board it leaves behind
PositionReturns(f, ret, b) ==
    /\ board' = b
    /\ last' = [op |-> "position", ret |-> ret, goes |-> Goes, new |-> f # fen]
    /\ output' = IF ret \in {"invalid_fen", "invalid_move", "illegal"}
                 THEN Append(output, [kind |-> ret])
                 ELSE output

RECURSIVE PlayMoves(_, _, _, _)
\* the `for mv in moves` loop of handle_position_command from move i on, b being the
\* board; the unwraps of make_move and unmake_move panic
PlayMoves(f, b, moves, i) ==
    IF i > Len(moves) THEN PositionReturns(f, "ok", b) ELSE
    \E found_move \in {find_matching_move(b, moves[i])} :
       IF found_move.ret = "panic" THEN PositionReturns(f, "panic", b)
       ELSE IF found_move.ret = "none" THEN PositionReturns(f, "illegal", b) ELSE
       \E made_move \in {make_move(b, found_move.mv)} :
          IF made_move.ret \in {"err", "panic"}
          THEN PositionReturns(f, "panic", made_move.b)
          ELSE IF made_move.ret = "false"
          THEN \E unmade \in {unmake_move(made_move.b, found_move.mv)} :
                  PositionReturns(f, IF unmade.ret = "ok" THEN "illegal" ELSE "panic",
                                  unmade.b)
          ELSE \E next \in {made_move.b} : PlayMoves(f, next, moves, i + 1)

\* handle_position_command for `position fen <f>` and, with has_moves, for
\* `position fen <f> moves <move_strs>`
handle_position_command(f, has_moves, move_strs, overflow_checks) ==
    /\ Idle
    /\ \E parsed \in {parse_fen(board, f, overflow_checks)} :
          IF parsed.ret = "err" THEN PositionReturns(f, "invalid_fen", parsed.b)
          ELSE IF parsed.ret = "panic" \/ ~has_moves
          THEN PositionReturns(f, parsed.ret, parsed.b) ELSE
          \E moves \in {CollectMetadata(move_strs, 1, overflow_checks)} :
             IF moves.ret = "err" THEN PositionReturns(f, "invalid_move", parsed.b)
             ELSE IF moves.ret = "panic" THEN PositionReturns(f, "panic", parsed.b)
             ELSE \E loaded \in {parsed.b} : PlayMoves(f, loaded, moves.moves, 1)
    /\ fen' = f
    /\ UNCHANGED <<made, seen, transposition_table, search_info, timer, max_depth,
                   killer_moves, history, counter_moves, stack, iteration>>

\* handle_go_command up to the first call of negamax inside search_position
handle_go_command(args, overflow_checks) ==
    /\ Idle
    /\ last.op \in {"position", "go"}
    /\ last.ret = "ok"
    /\ Goes < MaxGo
    /\ LET white == board.side = "White"
           time_remaining == IF white THEN args.wtime ELSE args.btime
           increment == IF white THEN args.winc ELSE args.binc
       IN  \E init \in {SearchTimer_initialize(timer, time_remaining, increment,
                                               args.movestogo, overflow_checks)} :
              /\ last' = [op |-> "go", ret |-> init.ret, goes |-> Goes + 1,
                          time_remaining |-> time_remaining, increment |-> increment,
                          moves_to_go |-> args.movestogo]
              /\ IF init.ret = "panic"
                 THEN /\ max_depth' = args.depth
                      /\ UNCHANGED <<board, transposition_table, search_info, timer,
                                     killer_moves, history, counter_moves, stack,
                                     iteration, output>>
                 ELSE \E n \in {search_position(
                                   [SearchState EXCEPT
                                       !.max_depth = args.depth,
                                       !.timer = SearchTimer_start(init.timer)])} :
                         Becomes(n)
    /\ UNCHANGED <<fen, made, seen>>

\* whether the clock has reached the allowed duration is open only when the node
\* about to be counted is one that checks the timer against a duration a clock can
\* reach
ElapsedChoices ==
    IF /\ (search_info.nodes_searched + 1) % 2048 = 0
       /\ timer.allowed_duration.kind = "Finite"
       /\ ~timer.allowed_duration.wrapped
       /\ timer.allowed_duration.ms > 0
    THEN BOOLEAN ELSE {FALSE}

\* a call of negamax runs up to its move loop or its return
Negamax ==
    /\ stack # <<>>
    /\ stack[Len(stack)].pc = "enter"
    /\ stack[Len(stack)].kind = "negamax"
    /\ \E elapsed_reached \in ElapsedChoices :
          \E s \in {SearchState} : NegamaxEnter(s, elapsed_reached)
    /\ UNCHANGED <<last, fen, made, seen>>

\* a call of quiescence_search by quiescence_search runs up to its move loop or its
\* return
QuiescenceSearch ==
    /\ stack # <<>>
    /\ stack[Len(stack)].pc = "enter"
    /\ stack[Len(stack)].kind = "quiescence"
    /\ \E elapsed_reached \in ElapsedChoices :
          \E s \in {SearchState} : QuiescenceEnter(s, elapsed_reached)
    /\ UNCHANGED <<last, fen, made, seen>>

\* the move loop of the call on top runs up to the next recursive call, or to the
\* return after the last move
NextMove ==
    /\ stack # <<>>
    /\ stack[Len(stack)].pc = "loop"
    /\ \E s \in {SearchState} : MoveLoop(s)
    /\ UNCHANGED <<last, fen, made, seen>>

\* the call on top returns to its caller, which runs up to its move loop or its own
\* return; the root returns to search_position
Return ==
    /\ stack # <<>>
    /\ stack[Len(stack)].pc = "return"
    /\ \E s \in {SearchState} : FrameReturned(s)
    /\ UNCHANGED <<last, fen, made, seen>>

NextSearch ==
    \/ \E f \in SearchFens, overflow_checks \in BOOLEAN :
          handle_position_command(f, FALSE, <<>>, overflow_checks)
    \/ \E args \in GoArgs, overflow_checks \in BOOLEAN :
          handle_go_command(args, overflow_checks)
    \/ Negamax
    \/ QuiescenceSearch
    \/ NextMove
    \/ Return

SpecSearch == Init /\ [][NextSearch]_vars

\* ------------------------------------------------------------ perft on its own
\* the positions and depths of the perft tests of the model: a knight on c3 and a
\* bishop on b3 next to the same kings, positions with pawns, castling and a check to
\* answer, a position with no king for the side to move, a malformed FEN
PerftFens ==
    {"4k3/8/8/8/8/2N5/8/4K3 w - - 0 1",
     "4k3/8/8/8/8/1B6/8/4K3 w - - 0 1",
     "4k3/8/8/8/3p4/8/4P3/4K3 w - - 5 1",
     "4k2r/8/8/8/8/8/8/R3K3 w Qk - 0 1",
     "4k3/8/8/8/8/8/4r3/4K3 w - - 0 1",
     "4k3/8/8/8/8/8/8/8 w - - 0 1",
     "4k3/8/8/8/8/8/8/4K3 x - - 0 1"}
PerftDepths == {0, 1, 2}

\* the perft tests one run makes
MaxPerft == 2

InitPerft ==
    /\ board = BoardDefault
    /\ last = [op |-> "new", ret |-> "ok"]
    /\ fen = ""
    /\ made = <<>>
    /\ seen = <<>>
    /\ transposition_table = PerftTable_new
    /\ search_info = [ply |-> 0, nodes_searched |-> 0]
    /\ timer = SearchTimerDefault
    /\ max_depth = SearchDepth_MAX
    /\ killer_moves = <<>>
    /\ history = <<>>
    /\ counter_moves = <<>>
    /\ stack = <<>>
    /\ iteration = [state |-> "idle", depth |-> 0, best_move |-> NULL_MOVE, pv |-> <<>>]
    /\ output = <<>>

\* what one perft test leaves behind; seen keeps the position the count was asked of
PerftReturns(f, depth, parsed, result) ==
    /\ board' = result.b
    /\ transposition_table' = result.table
    /\ last' = [op |-> "perft", ret |-> IF result.ret = "ok" THEN "ok" ELSE "panic",
                nodes |-> result.nodes, depth |-> depth]
    /\ seen' = <<parsed>>
    /\ fen' = f
    /\ output' = Append(output, [kind |-> "perft", depth |-> depth])

\* one test of run_perft_tests: parse_fen(fen).unwrap(), then
\* perft(board, depth, transposition_table).unwrap() on the table all tests share
run_perft_tests(f, depth, overflow_checks) ==
    /\ ~Crashed
    /\ Len(output) < MaxPerft
    /\ \E parsed \in {parse_fen(board, f, overflow_checks)} :
          IF parsed.ret # "ok"
          THEN PerftReturns(f, depth, parsed.b,
                            PerftResult("panic", 0, parsed.b, transposition_table))
          ELSE \E loaded \in {parsed.b} :
                  \E result \in {perft(loaded, depth, transposition_table)} :
                     PerftReturns(f, depth, loaded, result)
    /\ UNCHANGED <<made, search_info, timer, max_depth, killer_moves, history,
                   counter_moves, stack, iteration>>

NextPerft ==
    \E f \in PerftFens, depth \in PerftDepths, overflow_checks \in BOOLEAN :
       run_perft_tests(f, depth, overflow_checks)

SpecPerft == InitPerft /\ [][NextPerft]_vars

\* ---------------------------------------------------- the attack tables on their own
\* the occupancies a slider on a square is looked up with: none, the square alone,
\* every square, the blocker mask, everything but the mask, the neighbours of the
\* square with and without the square, and the squares two steps away
LookupOccupancies(square) ==
    {EMPTY_BB, {square}, Squares, ROOK_BLOCKER_MASK[square],
     Squares \ BISHOP_BLOCKER_MASK[square],
     KING_ATTACKS[square], KING_ATTACKS[square] \cup {square},
     {sq \in Squares : distance_between(sq, square) \in {2, 16, 14, 18}}}

\* the square init_rook_attacks and init_bishop_attacks turn to next
MagicsFilled(op) == last.op = op /\ last.square = 63
NextToFill(op) == IF last.op = op THEN last.square + 1 ELSE 0

\* one turn of the loop of init_rook_attacks
InitRookAttacks ==
    /\ last.op = "new" \/ (last.op = "init_rook_attacks" /\ last.square < 63)
    /\ \E square \in {NextToFill("init_rook_attacks")} :
          last' = [op |-> "init_rook_attacks", ret |-> "ok", square |-> square,
                   attacks |-> init_rook_attacks(square)]
    /\ UNCHANGED <<board, fen, made, seen>>
    /\ UNCHANGED searchVars

\* one turn of the loop of init_bishop_attacks, which runs after init_rook_attacks
InitBishopAttacks ==
    /\ MagicsFilled("init_rook_attacks")
          \/ (last.op = "init_bishop_attacks" /\ last.square < 63)
    /\ \E square \in {NextToFill("init_bishop_attacks")} :
          last' = [op |-> "init_bishop_attacks", ret |-> "ok", square |-> square,
                   attacks |-> init_bishop_attacks(square)]
    /\ UNCHANGED <<board, fen, made, seen>>
    /\ UNCHANGED searchVars

\* get_rook_attacks(magic.get_magic_index(occupancies)) for the square just filled
GetRookAttacks ==
    /\ last.op = "init_rook_attacks"
    /\ \E occupancies \in LookupOccupancies(last.square) :
          \E magic_index \in {RookMagicIndex(last.square, occupancies)} :
             last' = [op |-> "get_rook_attacks", ret |-> "ok", square |-> last.square,
                      occupancies |-> occupancies, magic_index |-> magic_index,
                      found |-> last.attacks[magic_index]]
    /\ UNCHANGED <<board, fen, made, seen>>
    /\ UNCHANGED searchVars

\* get_bishop_attacks(magic.get_magic_index(occupancies)) for the square just filled
GetBishopAttacks ==
    /\ last.op = "init_bishop_attacks"
    /\ \E occupancies \in LookupOccupancies(last.square) :
          \E magic_index \in {BishopMagicIndex(last.square, occupancies)} :
             last' = [op |-> "get_bishop_attacks", ret |-> "ok", square |-> last.square,
                      occupancies |-> occupancies, magic_index |-> magic_index,
                      found |-> last.attacks[magic_index]]
    /\ UNCHANGED <<board, fen, made, seen>>
    /\ UNCHANGED searchVars

NextMagic ==
    \/ InitRookAttacks
    \/ InitBishopAttacks
    \/ GetRookAttacks
    \/ GetBishopAttacks

SpecMagic == Init /\ [][NextMagic]_vars

\* ------------------------------------------- the position command on its own
\* the FEN strings and the move lists of the position commands: moves that are played,
\* an en-passant capture, a promotion, a promotion string without its piece, strings
\* that are no moves, moves that no piece can make and moves that leave the king in
\* check, alone and after moves that were played; a position with every piece but a
\* black rook on the board and a pawn about to promote
PositionFens ==
    {"4k3/8/8/8/3p4/8/4P3/4K3 w - - 5 1",
     "3n4/4P3/8/8/8/8/k7/4K3 w - - 0 1",
     "4k3/8/8/8/8/8/4r3/4K3 w - - 0 1",
     "4k2r/8/8/8/8/8/8/R3K3 w Qk - 0 1",
     "4k3/8/8/8/8/8/3p4/2N3K1 b - - 0 1",
     "7k/3P4/8/8/8/8/8/4K3 w - c8 0 1",
     "r3k3/1P6/8/8/3Pp3/8/8/4K2R w K e3 0 1",
     "1nbqkbnr/Pppppppp/8/8/8/8/1PPPPPPP/RNBQKBNR w KQk - 0 1",
     "4k3/8/8/8/8/8/8/4K3 x - - 0 1"}

PositionMoves ==
    {<<"e2e4">>, <<"e2e4", "d4e3">>, <<"e2e3", "e8e7", "e1e3">>, <<"e2e4", "e8e9">>,
     <<"e2e3", "e2">>, <<"e1d2">>, <<"e1d1", "e8d8", "d1d2">>, <<"e7e8q">>, <<"e7d8n">>,
     <<"e7e8">>, <<"e7e8x">>, <<"e1c1">>, <<"e1e2", "e0e1">>, <<"a1a8">>, <<"d2d1q", "g1f1">>, <<"d2c1r">>,
     <<"d7d8q">>, <<"b7a8q", "e8d7">>, <<"h1h8", "e4d3">>, <<"a7a8q">>}

\* the commands taken while fewer than MaxRejected were rejected
MaxRejected == 2

NextPosition ==
    \E f \in PositionFens, has_moves \in BOOLEAN, overflow_checks \in BOOLEAN :
       \E move_strs \in IF has_moves THEN PositionMoves ELSE {<<>>} :
          /\ Len(output) < MaxRejected
          /\ handle_position_command(f, has_moves, move_strs, overflow_checks)

SpecPosition == Init /\ [][NextPosition]_vars

\* ------------------------------------------- the ordering tables on their own
\* the positions whose moves are scored and cut off: a promotion with and without a
\* capture, an en-passant capture, a plain capture beside quiet moves
OrderingFens ==
    {"3n4/4P3/8/8/8/8/k7/4K3 w - - 0 1",
     "4k3/8/8/8/3Pp3/8/8/4K3 b - d3 0 1",
     "4k3/8/8/3p4/4P3/8/8/4K3 w - - 0 1"}

\* the depths of the cutoffs: negamax runs at depths 1 ..= max_depth, one more in check
CutoffDepths == {1, 31, 65}

\* the ply the tables are used at
OrderingPly == 1

\* the moves that led to the position: none at the root
PreviousMoves == {NULL_MOVE, MoveNew(11, 27, "Quiet", "None")}

\* the cutoffs of one run
MaxCutoffs == 1

Cutoffs == IF "cutoffs" \in DOMAIN last THEN last.cutoffs ELSE 0

orderingFrame == <<transposition_table, timer, max_depth, stack, iteration, output>>

\* `position fen <f>`
OrderingPosition(f) ==
    /\ \E parsed \in {parse_fen(board, f, TRUE)} :
          /\ board' = parsed.b
          /\ last' = [op |-> "parse_fen", ret |-> parsed.ret, cutoffs |-> Cutoffs]
    /\ fen' = f
    /\ UNCHANGED <<made, seen, search_info, killer_moves, history, counter_moves,
                   orderingFrame>>

\* the three table updates negamax makes for the move mv that scored >= beta at
\* depth, previous_move being the move that led to the node
BetaCutoff ==
    /\ last.op # "new" /\ last.ret = "ok"
    /\ Cutoffs < MaxCutoffs
    /\ \E generated \in {generate_all_moves(board)} :
       \E depth \in CutoffDepths, previous_move \in PreviousMoves :
       \E i \in 1..Len(generated.moves) :
       \E mv \in {generated.moves[i]} :
       \E s \in {[SearchState EXCEPT !.search_info.ply = OrderingPly]} :
       \E with_killer \in {store_killer_move(s, mv)} :
       \E with_history \in {update_history_score(with_killer, mv, depth)} :
       \E with_counter \in {store_counter_move(with_history, previous_move, mv)} :
          /\ search_info' = with_counter.search_info
          /\ killer_moves' = with_counter.killer_moves
          /\ history' = with_counter.history
          /\ counter_moves' = with_counter.counter_moves
          /\ last' = [op |-> "cutoff", ret |-> "ok", cutoffs |-> Cutoffs + 1,
                      mv |-> mv, depth |-> depth, previous_move |-> previous_move,
                      before |-> [killer_moves |-> killer_moves, history |-> history,
                                  counter_moves |-> counter_moves]]
    /\ UNCHANGED <<board, fen, made, seen, orderingFrame>>

\* score_moves on the moves of the position, as negamax calls it
ScoreMoves ==
    /\ last.op # "new" /\ last.ret = "ok"
    /\ \E generated \in {generate_all_moves(board)} :
       \E previous_move \in PreviousMoves :
       \E t \in 0..Len(generated.moves) :
       \E transposition_move \in {IF t = 0 THEN NULL_MOVE ELSE generated.moves[t]} :
       \E s \in {[SearchState EXCEPT !.search_info.ply = OrderingPly]} :
       \E scored \in {score_moves(s, generated.moves, transposition_move, previous_move)} :
          /\ search_info' = s.search_info
          /\ last' = [op |-> "score_moves", ret |-> scored.ret, cutoffs |-> Cutoffs,
                      move_list |-> scored.move_list,
                      transposition_move |-> transposition_move,
                      previous_move |-> previous_move]
    /\ UNCHANGED <<board, fen, made, seen, killer_moves, history, counter_moves,
                   orderingFrame>>

NextOrdering ==
    \/ \E f \in OrderingFens : OrderingPosition(f)
    \/ BetaCutoff
    \/ ScoreMoves

SpecOrdering == Init /\ [][NextOrdering]_vars

\* ------------------------------------------- the plies of the search on their own
\* The calls of negamax and quiescence_search with the board left out. What the board
\* decides is an input of each step: whether the side to move is in check, whether the
\* call returns before its move loop (a usable table entry, the timer, a draw, the
\* stand-pat cutoff), whether the loop has another legal move, whether a returned
\* score cuts off. What is kept is the arithmetic of depth and ply, the iterations of
\* search_position and the index into killer_moves.

\* the depths of the `go` commands: the default (SearchDepth::Infinite) and `depth 66`
PlyGoDepths == {SearchDepth_MAX, 66}

\* the plies at which the side to move may be in check
CheckPlies == {0, 1}

plyFrame == <<board, fen, made, seen, transposition_table, killer_moves, history,
              counter_moves>>

\* handle_go_command without a clock up to the first call of negamax: the timer is
\* started with no limit and max_depth = depth.into()
PlyGo(depth) ==
    /\ last.op = "new"
    /\ \E init \in {SearchTimer_initialize(timer, None, 0, None, TRUE)} :
       \E n \in {search_position([SearchState EXCEPT
                                     !.max_depth = depth,
                                     !.timer = SearchTimer_start(init.timer)])} :
          /\ max_depth' = n.max_depth
          /\ timer' = n.timer
          /\ search_info' = n.search_info
          /\ stack' = n.stack
          /\ iteration' = n.iteration
          /\ output' = n.output
    /\ last' = [op |-> "go", ret |-> "ok"]
    /\ UNCHANGED plyFrame

\* the step that leads to search state n, the board and the tables left out
PlyBecomes(n) ==
    /\ search_info' = n.search_info
    /\ stack' = n.stack
    /\ iteration' = n.iteration
    /\ output' = n.output
    /\ last' = [op |-> "search", ret |-> IF n.iteration.state = "panic" THEN "panic" ELSE "ok"]
    /\ UNCHANGED <<max_depth, timer, plyFrame>>

\* quiescence_search up to its move loop: the timer, the test of the ply, the
\* stand-pat cutoff; its score_moves reads killer_moves[ply] with ply below 64
PlyQuiescenceEnter(s, early) ==
    IF early THEN PlyBecomes(Ret(s, 0))
    ELSE IF s.search_info.ply >= SearchDepth_MAX THEN PlyBecomes(Ret(s, 0))
    ELSE PlyBecomes(SetTop(s, [Top(s) EXCEPT !.pc = "loop"]))

\* negamax up to its move loop: the check extension, the horizon, the early returns,
\* then score_moves, whose get_killer_moves indexes the 65 slots of killer_moves by
\* the ply
PlyNegamax ==
    /\ stack # <<>>
    /\ stack[Len(stack)].pc = "enter"
    /\ stack[Len(stack)].kind = "negamax"
    /\ \E check \in IF search_info.ply \in CheckPlies THEN BOOLEAN ELSE {FALSE},
          early \in BOOLEAN :
       \E s \in {SearchState} :
       \E f \in {[Top(s) EXCEPT !.depth = IF check THEN (@ + 1) % 256 ELSE @]} :
          IF f.depth = 0
          THEN PlyQuiescenceEnter(SetTop(s, [f EXCEPT !.kind = "quiescence"]), early)
          ELSE IF early THEN PlyBecomes(Ret(SetTop(s, f), 0))
          ELSE IF s.search_info.ply > SearchDepth_MAX
          THEN PlyBecomes(Fail(s, "panic"))
          ELSE PlyBecomes(SetTop(s, [f EXCEPT !.pc = "loop"]))

\* quiescence_search called by quiescence_search
PlyQuiescenceSearch ==
    /\ stack # <<>>
    /\ stack[Len(stack)].pc = "enter"
    /\ stack[Len(stack)].kind = "quiescence"
    /\ \E early \in BOOLEAN : \E s \in {SearchState} : PlyQuiescenceEnter(s, early)

\* the move loop: a legal move is made, the ply counted and the call for it made, or
\* the loop ends and the call returns
PlyNextMove ==
    /\ stack # <<>>
    /\ stack[Len(stack)].pc = "loop"
    /\ \E more \in BOOLEAN :
       \E s \in {SearchState} :
          IF more
          THEN PlyBecomes(CallChild([s EXCEPT !.search_info.ply = (@ + 1) % 256], TRUE))
          ELSE PlyBecomes(Ret(s, 0))

\* a call returns: its caller unmakes the move and takes the ply back, then cuts off
\* or goes on with its loop; the root returns to search_position
PlyReturn ==
    /\ stack # <<>>
    /\ stack[Len(stack)].pc = "return"
    /\ \E cutoff \in BOOLEAN :
       \E s0 \in {[SearchState EXCEPT !.stack = SubSeq(@, 1, Len(@) - 1)]} :
          IF s0.stack = <<>> THEN PlyBecomes(AfterIteration(s0, 0))
          ELSE \E s \in {Unwound(s0, s0.board)} :
                  IF cutoff THEN PlyBecomes(Ret(s, 0))
                  ELSE PlyBecomes(SetTop(s, [Top(s) EXCEPT !.pc = "loop"]))

NextPly ==
    \/ \E depth \in PlyGoDepths : PlyGo(depth)
    \/ PlyNegamax
    \/ PlyQuiescenceSearch
    \/ PlyNextMove
    \/ PlyReturn

SpecPly == Init /\ [][NextPly]_vars

\* ------------------------------------------------------------------ properties
\* the last call returned normally
Returned == last.ret \in {"ok", "true", "false"}

\* the position was reached from the parsed FEN by make_move calls alone
OnlyMoves == \A k \in 1..Len(made) : made[k].kind # "Null"

\* the board the last successful parse_fen produced (a successful parse does not
\* depend on the board it started from)
StartBoard == parse_fen(BoardDefault, fen, FALSE).b

\* the en-passant square of a position, if set, is an empty square with an enemy pawn
\* right behind it: the pawn an en-passant capture removes
EpSquareSound(b) ==
    \/ b.en_passant_square = NoSquare
    \/ LET behind == IF b.side = "White" THEN b.en_passant_square - 8
                     ELSE b.en_passant_square + 8
       IN  /\ behind \in Squares
           /\ b.pieces[b.en_passant_square] = NoPiece
           /\ b.pieces[behind] = PieceNew(NotSide(b.side), "Pawn")

\* every castling right a position holds has its king and its rook at home
CastlingRightsSound(b) ==
    /\ BitAnd(b.castling_rights, WhiteKing) # 0 =>
          b.pieces[E1] = PieceNew("White", "King") /\ b.pieces[H1] = PieceNew("White", "Rook")
    /\ BitAnd(b.castling_rights, WhiteQueen) # 0 =>
          b.pieces[E1] = PieceNew("White", "King") /\ b.pieces[A1] = PieceNew("White", "Rook")
    /\ BitAnd(b.castling_rights, BlackKing) # 0 =>
          b.pieces[E8] = PieceNew("Black", "King") /\ b.pieces[H8] = PieceNew("Black", "Rook")
    /\ BitAnd(b.castling_rights, BlackQueen) # 0 =>
          b.pieces[E8] = PieceNew("Black", "King") /\ b.pieces[A8] = PieceNew("Black", "Rook")

PieceBitboards ==
    {"white_pawns", "white_knights", "white_bishops", "white_rooks", "white_queens",
     "white_king", "black_pawns", "black_knights", "black_bishops", "black_rooks",
     "black_queens", "black_king"}

\* mailbox, piece bitboards and occupancies say the same of every square
Agree(b) ==
    /\ \A s \in Squares :
          LET p == b.pieces[s] IN
          IF p = NoPiece
          THEN /\ \A f \in PieceBitboards : s \notin b[f]
               /\ s \notin b.white_occupancies /\ s \notin b.black_occupancies
          ELSE /\ \A f \in PieceBitboards : s \in b[f] <=> f = PieceBBField(p)
               /\ s \in b.white_occupancies <=> p.color = "White"
               /\ s \in b.black_occupancies <=> p.color = "Black"
    /\ b.white_occupancies \cap b.black_occupancies = {}

\* the squares strictly between two squares of one rank, file or diagonal
Between(q, t) ==
    {s \in Squares :
        /\ s # q /\ s # t
        /\ Abs(RankOf(s) - RankOf(q)) + Abs(RankOf(t) - RankOf(s)) = Abs(RankOf(t) - RankOf(q))
        /\ Abs(FileOf(s) - FileOf(q)) + Abs(FileOf(t) - FileOf(s)) = Abs(FileOf(t) - FileOf(q))
        /\ (RankOf(s) - RankOf(q)) * (FileOf(t) - FileOf(q))
              = (FileOf(s) - FileOf(q)) * (RankOf(t) - RankOf(q))}

\* the rules of chess, read off the mailbox: the piece standing on q attacks t
PieceAttacks(b, q, t) ==
    LET p == b.pieces[q]
        dr == RankOf(t) - RankOf(q)
        df == FileOf(t) - FileOf(q)
        clear == \A s \in Between(q, t) : b.pieces[s] = NoPiece
        straight == (dr = 0) # (df = 0)
        diagonal == Abs(dr) = Abs(df) /\ dr # 0
    IN  CASE p.kind = "Pawn" -> Abs(df) = 1 /\ dr = (IF p.color = "White" THEN 1 ELSE -1)
          [] p.kind = "Knight" -> {Abs(dr), Abs(df)} = {1, 2}
          [] p.kind = "King" -> Abs(dr) <= 1 /\ Abs(df) <= 1 /\ q # t
          [] p.kind = "Rook" -> straight /\ clear
          [] p.kind = "Bishop" -> diagonal /\ clear
          [] p.kind = "Queen" -> (straight \/ diagonal) /\ clear
          [] OTHER -> FALSE

\* the king of `side` stands on a square a piece of the other side attacks
KingAttacked(b, side) ==
    \E k, q \in Squares :
        /\ b.pieces[k] = PieceNew(side, "King")
        /\ b.pieces[q].color = NotSide(side)
        /\ PieceAttacks(b, q, k)


\* C1, as stated: from every position reached from a successfully parsed FEN by
\* make_move calls, make_move of a generated move followed by unmake_move of it
\* restores the position exactly (bitboards, mailbox, occupancies, side, castling
\* rights, en-passant square, clock, history and hash), whatever make_move returned
C1_RoundTripAnyFen ==
    (last.op = "unmake_move" /\ OnlyMoves)
        => (last.ret = "ok" /\ board = seen[Len(made) + 1])

\* C1, amended: the same round trip, for positions reached from a parsed FEN whose
\* en-passant square, if set, is empty with an enemy pawn behind it
C1_RoundTrip ==
    (last.op = "unmake_move" /\ OnlyMoves /\ EpSquareSound(StartBoard))
        => (last.ret = "ok" /\ board = seen[Len(made) + 1])

\* a move was made and unmade, one ply deep, from a position that had an en-passant
\* square set by the double push before it
C1_Witness ==
    /\ last.op = "unmake_move" /\ last.ret = "ok" /\ OnlyMoves
    /\ EpSquareSound(StartBoard)
    /\ Len(made) = 1
    /\ board.en_passant_square # NoSquare
    /\ StartBoard.en_passant_square = NoSquare
    /\ board = seen[2]

\* C2: after a successful parse_fen and after every make_move, make_null_move,
\* unmake_move and unmake_null_move the incrementally kept hash equals
\* hash_position(board)
C2_HashInSync ==
    (last.op \in {"parse_fen", "make_move", "make_null_move", "unmake_move",
                  "unmake_null_move"} /\ Returned)
        => board.hash = hash_position(board)

\* C3: the key of a piece of colour c and kind k on square s has index
\* (6*c + k)*64 + s, an index in 0..767, and two different (piece, square) pairs
\* never share a key; stated of the pieces standing on the board, whose keys the
\* hash is made of
C3_PieceKeyIndex ==
    \A s, t \in Squares :
        (board.pieces[s] # NoPiece /\ board.pieces[t] # NoPiece) =>
            /\ KeyPiece(board.pieces[s], s)
                  = (6 * ColorIndex(board.pieces[s].color)
                     + KindIndex(board.pieces[s].kind)) * 64 + s
            /\ KeyPiece(board.pieces[s], s) \in 0..767
            /\ s # t => KeyPiece(board.pieces[s], s) # KeyPiece(board.pieces[t], t)

\* C4, as stated: after a successful parse_fen and after any sequence of make_move
\* and unmake_move of generated moves, mailbox, piece bitboards and occupancies
\* agree on every square and the two occupancies are disjoint
C4_AgreeAnyFen ==
    (\/ last.op = "parse_fen" /\ last.ret = "ok"
     \/ last.op \in {"make_move", "unmake_move"} /\ Returned /\ OnlyMoves)
        => Agree(board)

\* C4, amended: the same agreement, after a successful parse_fen, and after the
\* makes and unmakes that follow a parsed FEN whose en-passant square, if set, is
\* empty with an enemy pawn behind it
C4_Agree ==
    (\/ last.op = "parse_fen" /\ last.ret = "ok"
     \/ /\ last.op \in {"make_move", "unmake_move"} /\ Returned /\ OnlyMoves
        /\ EpSquareSound(StartBoard))
        => Agree(board)

\* an en-passant capture was just made: the capturing pawn stands on what was the
\* en-passant square, the pawn behind it is gone
C4_Witness ==
    /\ last.op = "make_move" /\ Returned /\ OnlyMoves
    /\ EpSquareSound(StartBoard)
    /\ made[Len(made)].flag = "EnPassant"
    /\ board.pieces[made[Len(made)].to].kind = "Pawn"
    /\ Agree(board)


\* what make_move that returned false must have done: the piece left its square, the
\* side changed, one history item was pushed
Applied(pre, mv, b) ==
    /\ b.pieces[mv.from] # pre.pieces[mv.from]
    /\ b.side = NotSide(pre.side)
    /\ Len(b.history) = Len(pre.history) + 1

\* make_move returned true exactly when the king of the side that moved is not attacked
LegalityResult ==
    (last.op = "make_move" /\ Returned /\ OnlyMoves) =>
        /\ last.ret = "true" <=> ~KingAttacked(board, NotSide(board.side))
        /\ last.ret = "false" => Applied(seen[Len(made)], made[Len(made)], board)

\* the unmake_move that follows a make_move that returned false restores the position
UnmakeAfterFalse ==
    (last.op = "make_move" /\ last.ret = "false" /\ OnlyMoves /\ last'.op = "unmake_move")
        => (last'.ret = "ok" /\ board' = seen[Len(made)])

C6_NoMakeErrorAnyFen ==
    (last.op = "make_move" /\ OnlyMoves) => last.ret # "err"

\* C6, amended: make_move of a generated move never returns an error in positions
\* reached from a parsed FEN whose en-passant square, if set, is empty with an enemy
\* pawn behind it and whose castling rights each have king and rook at home
C6_NoMakeError ==
    (/\ last.op = "make_move" /\ OnlyMoves
     /\ EpSquareSound(StartBoard) /\ CastlingRightsSound(StartBoard))
        => last.ret # "err"

\* a generated castle was made: king and rook stand on their castled squares
C6_Witness ==
    /\ last.op = "make_move" /\ Returned /\ OnlyMoves
    /\ EpSquareSound(StartBoard) /\ CastlingRightsSound(StartBoard)
    /\ made[Len(made)].kind = "Castle"
    /\ board.pieces[made[Len(made)].to].kind = "King"
    /\ board.pieces[CastleRookSquares(made[Len(made)].to)[2]].kind = "Rook"

\* C7: when parse_fen returns an error the Board is as it was before the call
C7_ErrorLeavesBoard ==
    [][(last'.op = "parse_fen" /\ last'.ret = "err") => board' = board]_vars

RECURSIVE RankTotal(_, _)
\* the files a rank of the placement field describes: one a piece, n a digit n;
\* -1 for any other character
RankTotal(rank_fen, i) ==
    IF i > Len(rank_fen) THEN 0
    ELSE LET ch == Char(rank_fen, i)
             here == IF ch \in PieceChars THEN 1
                     ELSE IF ch \in {"1", "2", "3", "4", "5", "6", "7", "8"} THEN ToDigit(ch)
                     ELSE -1
             rest == RankTotal(rank_fen, i + 1)
         IN  IF here = -1 \/ rest = -1 THEN -1 ELSE here + rest

AllCharsIn(s, chars) == \A i \in 1..Len(s) : Char(s, i) \in chars

Digits == {"0", "1", "2", "3", "4", "5", "6", "7", "8", "9"}

\* the 6-field FEN format of the interface description
WellFormedFen(f) ==
    LET fields == Split(f, " ") IN
    /\ Len(fields) = 6
    /\ LET ranks == Split(fields[1], "/")
       IN  Len(ranks) = 8 /\ \A k \in 1..8 : RankTotal(ranks[k], 1) = 8
    /\ fields[2] \in {"w", "b"}
    /\ \/ fields[3] = "-"
       \/ Len(fields[3]) >= 1 /\ AllCharsIn(fields[3], {"K", "Q", "k", "q"})
    /\ \/ fields[4] = "-"
       \/ /\ Len(fields[4]) = 2
          /\ Char(fields[4], 1) \in {"a", "b", "c", "d", "e", "f", "g", "h"}
          /\ Char(fields[4], 2) \in {"1", "2", "3", "4", "5", "6", "7", "8"}
    /\ Len(fields[5]) >= 1 /\ AllCharsIn(fields[5], Digits)
    /\ Len(fields[6]) >= 1 /\ AllCharsIn(fields[6], Digits)

\* C8: parse_fen returns an error for every input that deviates from the 6-field
\* format: a rank that does not total 8 files, a side field other than exactly w or
\* b, an en-passant field that is neither - nor an algebraic square
C8_RejectsMalformed ==
    (last.op = "parse_fen" /\ ~WellFormedFen(fen)) => last.ret = "err"

\* the en-passant square is None, or on rank 3 or 6 with a pawn of the side to move
\* attacking it
EpSquareAttacked(b) ==
    \/ b.en_passant_square = NoSquare
    \/ /\ RankOf(b.en_passant_square) \in {2, 5}
       /\ \E q \in Squares :
             /\ b.pieces[q] = PieceNew(b.side, "Pawn")
             /\ PieceAttacks(b, q, b.en_passant_square)

\* C9: after a successful parse_fen and after any make_move the en-passant square is
\* None, or lies on rank 3 or rank 6 with at least one pawn of the side to move
\* attacking it
C9_EnPassantValid ==
    (\/ last.op = "parse_fen" /\ last.ret = "ok"
     \/ last.op = "make_move" /\ Returned)
        => EpSquareAttacked(board)

Holds(b, right) == (b.castling_rights \div right) % 2 = 1

\* the king home square and the rook home square of a castling right
HomeSquares(right) ==
    CASE right = WhiteKing -> {E1, H1}
      [] right = WhiteQueen -> {E1, A1}
      [] right = BlackKing -> {E8, H8}
      [] right = BlackQueen -> {E8, A8}

\* C10: across a make_move the held castling rights only shrink: a right absent
\* before is absent after, and a right held before is removed exactly when the
\* move's from-square or to-square is the right's king or rook home square
C10_RightsOnlyShrink ==
    (last.op = "make_move" /\ Returned) =>
        \A right \in {WhiteKing, WhiteQueen, BlackKing, BlackQueen} :
            Holds(board, right) <=>
                /\ Holds(seen[Len(made)], right)
                /\ made[Len(made)].from \notin HomeSquares(right)
                /\ made[Len(made)].to \notin HomeSquares(right)

\* a move from or to a rook's corner took one right and left another held
C10_Witness ==
    /\ last.op = "make_move" /\ Returned
    /\ Holds(seen[Len(made)], WhiteQueen) /\ ~Holds(board, WhiteQueen)
    /\ made[Len(made)].from = A1
    /\ Holds(board, BlackKing)

\* a piece of `side` attacks the square t, by the rules of chess read off the mailbox
Attacked(b, t, side) ==
    \E q \in Squares : b.pieces[q].color = side /\ PieceAttacks(b, q, t)

SaneStart(b) ==
    /\ Cardinality(b.white_king) = 1 /\ Cardinality(b.black_king) = 1
    /\ ~KingAttacked(b, NotSide(b.side))

\* no move of the list lands on the square of the king of the side not to move
NoKingCapture(b) ==
    \A i \in 1..Len(generate_all_moves(b).moves) :
        b.pieces[generate_all_moves(b).moves[i].to] # PieceNew(NotSide(b.side), "King")

\* each king bitboard has one bit; no generated move lands on the enemy king
OneKingNoKingCapture ==
    /\ Cardinality(board.white_king) = 1
    /\ Cardinality(board.black_king) = 1
    /\ ~MustUnmake => NoKingCapture(board)

HistoryStep ==
    /\ (last'.op = "parse_fen" /\ last'.ret = "ok") => board'.history = <<>>
    /\ (last'.op = "make_move" /\ last'.ret \in {"true", "false"}) =>
           Len(board'.history) = Len(board.history) + 1
    /\ last'.op = "make_null_move" => Len(board'.history) = Len(board.history) + 1
    /\ (last'.op = "unmake_move" /\ last'.ret = "ok") =>
           Len(board'.history) = Len(board.history) - 1
    /\ last'.op = "unmake_null_move" => Len(board'.history) = Len(board.history) - 1

\* C13: the history stack is empty after a successful parse_fen, grows by one on each
\* make_move that returns Ok and each make_null_move, shrinks by one on each
\* unmake_move and unmake_null_move, and so is as long as the makes not yet unmade
C13_HistoryLength ==
    /\ []((Loaded /\ Returned) => Len(board.history) = Len(made))
    /\ [][HistoryStep]_vars

\* a make, a null move and the unmake of the null move: one item left on the stack
C13_Witness ==
    /\ last.op = "unmake_null_move"
    /\ Len(made) = 1 /\ Len(board.history) = 1
    /\ made[1].kind # "Null"

\* the score an entry stands for at the probing ply: a mate score, stored with the
\* storing ply added to its distance, has the probing ply taken off again
PlyAdjusted(score, ply) ==
    IF score > CHECKMATE_THRESHOLD THEN score - ply
    ELSE IF score < -CHECKMATE_THRESHOLD THEN score + ply
    ELSE score

\* what get yields, given the score the Alpha and Beta bounds are compared by
Usable(bound_score) ==
    LET entry == last.entry IN
    IF entry.hash = last.hash /\ entry.depth >= last.depth
    THEN CASE entry.flag = "Exact" ->
                 last.score = Some(PlyAdjusted(entry.score, last.ply))
           [] entry.flag = "Alpha" ->
                 last.score.is_some => (last.score.value = last.alpha
                                        /\ bound_score <= last.alpha)
           [] entry.flag = "Beta" ->
                 last.score.is_some => (last.score.value = last.beta
                                        /\ bound_score >= last.beta)
    ELSE last.score = None

\* C14, as stated: get yields a score only when the stored hash equals the probed
\* hash and the stored depth is >= the requested depth, and then: Exact yields the
\* ply-adjusted stored score, Alpha yields alpha only if the stored score <= alpha,
\* Beta yields beta only if the stored score >= beta; otherwise no score
C14_UsableStoredScore == last.op = "get" => Usable(last.entry.score)

\* C14, amended: the same, the Alpha and Beta bounds being compared by the
\* ply-adjusted stored score, and a score being yielded whenever the bound holds
C14_Usable ==
    last.op = "get" =>
        /\ Usable(PlyAdjusted(last.entry.score, last.ply))
        /\ (last.entry.hash = last.hash /\ last.entry.depth >= last.depth) =>
              /\ (last.entry.flag = "Alpha"
                  /\ PlyAdjusted(last.entry.score, last.ply) <= last.alpha)
                     => last.score.is_some
              /\ (last.entry.flag = "Beta"
                  /\ PlyAdjusted(last.entry.score, last.ply) >= last.beta)
                     => last.score.is_some

\* an Alpha entry with a mate score yielded alpha at a ply where the score as stored
\* lies above alpha and the ply-adjusted score does not
C14_Witness ==
    /\ last.op = "get" /\ last.entry.flag = "Alpha"
    /\ last.score = Some(last.alpha)
    /\ last.entry.score > last.alpha
    /\ PlyAdjusted(last.entry.score, last.ply) <= last.alpha

\* C15: get returns the stored best move whenever the stored hash equals the probed
\* hash, also when depth or flag make the score unusable; when the slot holds an
\* entry of another hash it returns no score and the null move
C15_BestMove ==
    last.op = "get" =>
        IF last.entry.hash = last.hash
        THEN last.best_move = last.entry.best_move
        ELSE last.score = None /\ last.best_move = NULL_MOVE

\* the probed slot holds the entry stored for another hash that shares the slot, with
\* a best move and enough depth
C15_Witness ==
    /\ last.op = "get"
    /\ last.entry.hash # last.hash /\ last.entry.hash # {}
    /\ get_index(transposition_table, last.entry.hash)
          = get_index(transposition_table, last.hash)
    /\ last.entry.best_move # NULL_MOVE /\ last.entry.depth >= last.depth
    /\ last.score = None /\ last.best_move = NULL_MOVE

\* a probe of the hash the step before stored with flag Exact and enough depth
ProbeAfterStore ==
    /\ last.op = "store" /\ last'.op = "get"
    /\ last'.hash = last.hash /\ last.flag = "Exact" /\ last.depth >= last'.depth

\* C16: a score s with |s| > CHECKMATE_THRESHOLD stored at ply p with flag Exact and
\* probed at ply q with sufficient depth comes back as s + p - q when positive and
\* s - p + q when negative (s itself at the storing ply); a score with
\* |s| <= CHECKMATE_THRESHOLD comes back unchanged at any ply
C16_MateScorePly ==
    [][ProbeAfterStore =>
          last'.score =
             Some(IF last.score > CHECKMATE_THRESHOLD
                  THEN last.score + last.ply - last'.ply
                  ELSE IF last.score < -CHECKMATE_THRESHOLD
                       THEN last.score - last.ply + last'.ply
                       ELSE last.score)]_vars

\* a negative mate score stored at ply 3 came back at ply 5, two plies nearer to zero
C16_Witness ==
    /\ last.op = "get" /\ last.entry.flag = "Exact" /\ last.entry.hash = last.hash
    /\ last.entry.score = -INFINITY + 10 - 3
    /\ last.ply = 5
    /\ last.score = Some(-INFINITY + 10 - 3 + 5)

\* ------------------------------------------------ the search and the UCI commands
\* the lines the search of the last `go` has printed: the ones after the last
\* bestmove line before it
RECURSIVE LinesOfThisGo(_, _)
LinesOfThisGo(lines, k) ==
    IF k = 0 \/ lines[k].kind # "info" THEN <<>>
    ELSE Append(LinesOfThisGo(lines, k - 1), lines[k])

\* the search ended because the timer was found stopped after the iteration at depth
\* iteration.depth (the timer is started by `go` and only a check during the search
\* stops it)
Aborted == iteration.state = "done" /\ is_stopped(timer)

\* C17: when the timer stops the search during the iteration at depth d, the move
\* returned (the bestmove line) is the first move of the pv printed for depth d - 1,
\* the null move when d = 1 or that pv is empty, and the info lines printed are the
\* ones of the depths 1 .. d - 1 and no other
C17_StoppedKeepsLastDepth ==
    Aborted =>
        LET d == iteration.depth
            infos == LinesOfThisGo(output, Len(output) - 1)
            bestmove == output[Len(output)]
        IN  /\ bestmove.kind = "bestmove"
            /\ Len(infos) = d - 1
            /\ \A k \in 1..Len(infos) : infos[k].depth = k
            /\ bestmove.mv = IF d = 1 \/ infos[d - 1].pv = <<>> THEN NULL_MOVE
                             ELSE infos[d - 1].pv[1]

\* a search was stopped in an iteration after the first whose pv, when it stopped,
\* began with another move than the one of the iteration before, which was returned
C17_Witness ==
    /\ Aborted
    /\ iteration.depth >= 2
    /\ iteration.pv # <<>>
    /\ iteration.pv[1] # output[Len(output)].mv
    /\ output[Len(output)].mv # NULL_MOVE

\* C18: once the timer is stopped during a search every call of negamax and
\* quiescence_search that returns gives 0
C18_StoppedReturnsZero ==
    (iteration.state = "searching" /\ is_stopped(timer) /\ stack # <<>>
     /\ stack[Len(stack)].pc = "return")
        => stack[Len(stack)].value = 0

Max0(n) == IF n < 0 THEN 0 ELSE n

\* C19: after a `go` with a remaining time the allowed duration is
\* round(remaining / moves_to_go) + increment - 50 with a floor at 0, moves_to_go being
\* 30 when not given: initialize returns and the value has not wrapped
C19_DurationFloor ==
    (last.op = "go" /\ last.time_remaining.is_some) =>
        /\ last.ret = "ok"
        /\ timer.allowed_duration =
              [kind |-> "Finite",
               ms |-> Max0(RoundedQuotient(last.time_remaining.value,
                                           IF last.moves_to_go.is_some
                                           THEN last.moves_to_go.value ELSE 30)
                           + last.increment - 50),
               wrapped |-> FALSE]

\* the three ordering tables as Search::default() makes them
TablesInitial ==
    /\ \A k \in DOMAIN killer_moves : killer_moves[k] = <<NULL_MOVE, NULL_MOVE>>
    /\ \A k \in DOMAIN history : history[k] = 0
    /\ \A k \in DOMAIN counter_moves : counter_moves[k] = NULL_MOVE

\* C20: when a `position` command has loaded another position than the one before,
\* the killer, history and counter-move tables are in their initial state
C20_TablesResetByPosition ==
    (last.op = "position" /\ last.ret = "ok" /\ last.new) => TablesInitial

\* ------------------------------------------------------- the position command
Rejected(ret) == ret \in {"invalid_fen", "invalid_move", "illegal"}

\* C21: a position command that is rejected (invalid FEN, malformed move string, move
\* that is not legal) leaves the board as it was before the command
C21_RejectedLeavesBoard ==
    [][(last'.op = "position" /\ Rejected(last'.ret)) => board' = board]_vars

\* --------------------------------------------------------- the move generator
LastRank(side) == IF side = "White" THEN 7 ELSE 0

\* C22: the moves generate_all_moves emits for a pawn and a target on the mover's
\* last rank are four, of kind Promotion, with the flags Knight, Bishop, Rook and
\* Queen; a pawn move to any other rank is not of kind Promotion
C22_PromotionExpansion ==
    generate_all_moves(board).ret = "ok" =>
        LET moves == generate_all_moves(board).moves
            same(k) == {j \in 1..Len(moves) : /\ moves[j].from = moves[k].from
                                              /\ moves[j].to = moves[k].to}
        IN  \A k \in 1..Len(moves) :
               get_piece(board, moves[k].from) = PieceNew(board.side, "Pawn") =>
                  IF RankOf(moves[k].to) = LastRank(board.side)
                  THEN /\ Cardinality(same(k)) = 4
                       /\ \A j \in same(k) : moves[j].kind = "Promotion"
                       /\ {moves[j].flag : j \in same(k)} =
                              {"KnightPromotion", "BishopPromotion", "RookPromotion",
                               "QueenPromotion"}
                  ELSE moves[k].kind # "Promotion"

\* a position in which a pawn of the side to move can promote by a push and by a
\* capture
C22_Witness ==
    /\ generate_all_moves(board).ret = "ok"
    /\ \E k, j \in 1..Len(generate_all_moves(board).moves) :
          LET push == generate_all_moves(board).moves[k]
              capture == generate_all_moves(board).moves[j]
          IN  /\ push.kind = "Promotion" /\ capture.kind = "Promotion"
              /\ get_piece(board, push.to) = NoPiece
              /\ get_piece(board, capture.to).color = NotSide(board.side)

\* the moves of a list as a set
MoveSet(moves) == {moves[k] : k \in 1..Len(moves)}

\* a move that takes a piece: of kind Capture, or a promotion onto an enemy piece
IsCapturing(b, mv) ==
    \/ mv.kind = "Capture"
    \/ mv.kind = "Promotion" /\ get_piece(b, mv.to).color = NotSide(b.side)

\* C23: the moves of generate_all_captures are the capturing moves of
\* generate_all_moves: kind Capture, en passant included, and kind Promotion onto an
\* enemy piece
C23_CapturesOfAllMoves ==
    generate_all_moves(board).ret = "ok" =>
        /\ generate_all_captures(board).ret = "ok"
        /\ MoveSet(generate_all_captures(board).moves) =
              {mv \in MoveSet(generate_all_moves(board).moves) : IsCapturing(board, mv)}

\* ----------------------------------------------------------------- null moves
\* the board a null move was made on: the board before the last make
BeforeLastMake == seen[Len(made)]

\* the fields a null move has no business with
NullMoveFrame(b) ==
    [bitboards |-> [f \in PieceBitboards |-> b[f]], pieces |-> b.pieces,
     white_occupancies |-> b.white_occupancies,
     black_occupancies |-> b.black_occupancies,
     castling_rights |-> b.castling_rights, halfmove_clock |-> b.halfmove_clock]

\* C24: make_null_move toggles the side to move, clears the en-passant square in the
\* field and in the hash, pushes one history item and leaves the piece bitboards, the
\* mailbox, the occupancies, the castling rights and the halfmove clock as they were
C24_NullMoveFrame ==
    last.op = "make_null_move" =>
        /\ board.side = NotSide(BeforeLastMake.side)
        /\ board.en_passant_square = NoSquare
        /\ board.hash = Xor(Xor(BeforeLastMake.hash,
                                KeyEnPassantFile(BeforeLastMake.en_passant_square)),
                            KeySide)
        /\ Len(board.history) = Len(BeforeLastMake.history) + 1
        /\ NullMoveFrame(board) = NullMoveFrame(BeforeLastMake)

\* ------------------------------------------------------------------ evaluation
\* the square on the same file whose rank is counted from the other side
MirrorSquare(sq) == (7 - RankOf(sq)) * 8 + FileOf(sq)

MirrorPiece(piece) ==
    IF piece = NoPiece THEN NoPiece ELSE PieceNew(NotSide(piece.color), piece.kind)

MirrorBB(bb) == {MirrorSquare(sq) : sq \in bb}

\* the mirror of a board: colours swapped, side to move flipped, ranks mirrored
Mirror(b) ==
    [b EXCEPT
       !.white_pawns = MirrorBB(b.black_pawns), !.black_pawns = MirrorBB(b.white_pawns),
       !.white_knights = MirrorBB(b.black_knights),
       !.black_knights = MirrorBB(b.white_knights),
       !.white_bishops = MirrorBB(b.black_bishops),
       !.black_bishops = MirrorBB(b.white_bishops),
       !.white_rooks = MirrorBB(b.black_rooks), !.black_rooks = MirrorBB(b.white_rooks),
       !.white_queens = MirrorBB(b.black_queens),
       !.black_queens = MirrorBB(b.white_queens),
       !.white_king = MirrorBB(b.black_king), !.black_king = MirrorBB(b.white_king),
       !.white_occupancies = MirrorBB(b.black_occupancies),
       !.black_occupancies = MirrorBB(b.white_occupancies),
       !.pieces = [sq \in Squares |-> MirrorPiece(b.pieces[MirrorSquare(sq)])],
       !.side = NotSide(b.side)]

\* evaluate is asked of positions that were loaded and stand after a finished call
Evaluated == Loaded /\ Returned

\* C25 as stated: evaluate of a board and evaluate of its mirror have the same
\* magnitude and opposite signs
C25_MirrorNegates == Evaluated => evaluate(Mirror(board)) = -evaluate(board)

\* C25: evaluate of a board and evaluate of its mirror are the same number, the score
\* being that of the side to move on both boards
C25_MirrorEqual == Evaluated => evaluate(Mirror(board)) = evaluate(board)

\* a board with unequal material, a score other than 0 and a mirror that is another
\* board
C25_Witness ==
    /\ Evaluated
    /\ evaluate(board) > 100
    /\ board.white_occupancies # MirrorBB(board.black_occupancies)
    /\ board.black_pawns # {} /\ board.white_pawns # {}

\* ------------------------------------------------------------------------ perft
RECURSIVE PerftReference(_, _)
RECURSIVE PerftReferenceFrom(_, _, _, _)
\* the leaves of the tree of legal moves below a board, counted with no table
PerftReferenceFrom(b, depth, moves, i) ==
    IF i > Len(moves) THEN 0
    ELSE (LET made_move == make_move(b, moves[i])
          IN  IF made_move.ret = "true" THEN PerftReference(made_move.b, depth - 1) ELSE 0)
         + PerftReferenceFrom(b, depth, moves, i + 1)

PerftReference(b, depth) ==
    IF depth = 0 THEN 1
    ELSE PerftReferenceFrom(b, depth, generate_all_moves(b).moves, 1)

\* C26: the count perft returns for a position and a depth is the count obtained with
\* no table lookups, whatever earlier perft calls left in the table
C26_PerftIgnoresTable ==
    (last.op = "perft" /\ last.ret = "ok") =>
        last.nodes = PerftReference(seen[1], last.depth)

\* ---------------------------------------------------------------- magic lookups
\* the directions, mask, magic and table size that go with the last call
OfRooks == last.op \in {"init_rook_attacks", "get_rook_attacks"}
LastDirections == IF OfRooks THEN ROOK_DIRECTIONS ELSE BISHOP_DIRECTIONS
LastMask == IF OfRooks THEN ROOK_BLOCKER_MASK[last.square]
            ELSE BISHOP_BLOCKER_MASK[last.square]
LastMagics == IF OfRooks THEN ROOK_MAGICS ELSE BISHOP_MAGICS
LastTableSize == IF OfRooks THEN ROOK_ATTACK_TABLE_SIZE ELSE BISHOP_ATTACK_TABLE_SIZE
Filled == last.op \in {"init_rook_attacks", "init_bishop_attacks"}
LookedUp == last.op \in {"get_rook_attacks", "get_bishop_attacks"}

\* where the entries of the next square start
NextOffset ==
    IF last.square = 63 THEN LastTableSize ELSE LastMagics[last.square + 2].offset

\* every subset of the mask of the square finds its own ray walk at its index, which
\* lies in the part of the table between the offset of the square and the next one
EntriesAreRayWalks ==
    \A blockers \in SUBSET LastMask :
        LET magic_index == get_magic_index(LastMagics[last.square + 1], blockers) IN
        /\ magic_index >= LastMagics[last.square + 1].offset
        /\ magic_index < NextOffset /\ magic_index < LastTableSize
        /\ magic_index \in DOMAIN last.attacks
        /\ last.attacks[magic_index] =
              generate_sliding_attack_mask(last.square, blockers, LastDirections)

LastMove == made[Len(made)]

\* make_move came back with Ok
AfterMake == last.op = "make_move" /\ last.ret \in {"true", "false"}

\* the piece the last move moved
LastMoved == BeforeLastMake.pieces[LastMove.from]

\* the last move took a pawn two squares forward
DoublePush == LastMoved.kind = "Pawn" /\ distance_between(LastMove.from, LastMove.to) = 16

\* the square a double push jumps over
Jumped == (LastMove.from + LastMove.to) \div 2

\* a pawn of the side now to move stands next to the pawn that was pushed and so
\* attacks the square it jumped over
JumpedIsAttacked ==
    \E sq \in get_piece_bb(board, PieceNew(NotSide(LastMoved.color), "Pawn")) :
        /\ RankOf(sq) = RankOf(LastMove.to)
        /\ FileOf(sq) - FileOf(Jumped) \in {-1, 1}

\* C28: after make_move of a pawn double push the en-passant square is the square
\* jumped over if an enemy pawn attacks it and None otherwise; after make_move of any
\* other move it is None
C28_EnPassantAfterMake ==
    AfterMake =>
        board.en_passant_square =
            IF DoublePush /\ JumpedIsAttacked THEN Jumped ELSE NoSquare

\* a double push set the square and the move after it cleared it again
C28_Witness ==
    /\ AfterMake /\ Len(made) = 2
    /\ seen[1].en_passant_square = NoSquare
    /\ seen[2].en_passant_square # NoSquare
    /\ board.en_passant_square = NoSquare

\* C29: after make_move the halfmove clock is 0 if the moved piece is a pawn or the
\* move is a capture, and the previous clock plus 1 otherwise
C29_ClockAfterMake ==
    AfterMake =>
        board.halfmove_clock =
            IF LastMoved.kind = "Pawn" \/ LastMove.kind = "Capture" THEN 0
            ELSE BeforeLastMake.halfmove_clock + 1

\* a piece that is no pawn made a quiet move on a board whose clock was running
C29_Witness ==
    /\ AfterMake
    /\ LastMove.kind \in {"Quiet", "Castle"} /\ LastMoved.kind # "Pawn"
    /\ BeforeLastMake.halfmove_clock > 0
    /\ board.halfmove_clock > 1

\* -------------------------------------------------------------------- castling
\* the four castling moves: the right, the side, the king's home square, the square
\* it passes over, the square it lands on and the squares between king and rook
Castlings ==
    {[right |-> WhiteKing, side |-> "White", home |-> E1, over |-> F1, to |-> G1,
      between |-> {F1, G1}],
     [right |-> WhiteQueen, side |-> "White", home |-> E1, over |-> D1, to |-> C1,
      between |-> {B1, C1, D1}],
     [right |-> BlackKing, side |-> "Black", home |-> E8, over |-> F8, to |-> G8,
      between |-> {F8, G8}],
     [right |-> BlackQueen, side |-> "Black", home |-> E8, over |-> D8, to |-> C8,
      between |-> {B8, C8, D8}]}

\* the castling move is in the list generate_all_moves makes for the board
CastleEmitted(c) ==
    \E mv \in MoveSet(generate_all_moves(board).moves) :
        mv.kind = "Castle" /\ mv.from = c.home /\ mv.to = c.to

C31_HistoryBounded ==
    last.op = "cutoff" =>
        /\ \A k \in DOMAIN history : history[k] <= MAX_HISTORY_SCORE
        /\ \A k \in DOMAIN history : history[k] + COUNTER_MOVE_BONUS < SECOND_KILLER_SCORE

\* the piece a capturing move takes: the pawn beside the en-passant square, else the
\* piece on the square the move goes to
CapturedPiece(b, mv) ==
    IF mv.flag = "EnPassant" THEN PieceNew(NotSide(b.side), "Pawn")
    ELSE get_piece(b, mv.to)

\* C32: score_moves gives every capturing move other than the TT move, en-passant
\* captures and capturing promotions included, the score CAPTURE_SCORE_OFFSET +
\* 10 * value(captured piece) - value(attacker), so that every capture is ordered
\* strictly above both killer moves and every quiet move
C32_CaptureScores ==
    (last.op = "score_moves" /\ last.ret = "ok") =>
        \A i \in 1..Len(last.move_list) :
           LET mv == last.move_list[i].mv IN
           (IsCapturing(board, mv) /\ mv # last.transposition_move) =>
               /\ last.move_list[i].score =
                     CAPTURE_SCORE_OFFSET
                     + 10 * material_value(CapturedPiece(board, mv))
                     - material_value(get_piece(board, mv.from))
               /\ last.move_list[i].score > FIRST_KILLER_SCORE
               /\ \A j \in 1..Len(last.move_list) :
                     (~IsCapturing(board, last.move_list[j].mv)
                      /\ last.move_list[j].mv # last.transposition_move)
                         => last.move_list[j].score < last.move_list[i].score

\* the same for the captures that land on the piece they take
C32_CaptureScoresOnVictim ==
    (last.op = "score_moves" /\ last.ret = "ok") =>
        \A i \in 1..Len(last.move_list) :
           LET mv == last.move_list[i].mv IN
           (IsCapturing(board, mv) /\ mv.flag # "EnPassant"
            /\ mv # last.transposition_move) =>
               last.move_list[i].score =
                   CAPTURE_SCORE_OFFSET
                   + 10 * material_value(get_piece(board, mv.to))
                   - material_value(get_piece(board, mv.from))

\* ------------------------------------------------------- the search: beta cutoffs
\* the call on top has returned a value that is a beta cutoff for its caller negamax:
\* the step that follows runs the caller's `if score >= beta` block
CutoffPending ==
    /\ Len(stack) >= 2
    /\ stack[Len(stack)].pc = "return"
    /\ stack[Len(stack) - 1].kind = "negamax"
    /\ -stack[Len(stack)].value >= stack[Len(stack) - 1].beta

\* the move the caller has made and not yet unmade took a piece
LastMoveCaptured ==
    /\ board.history # <<>>
    /\ board.history[Len(board.history)].captured_piece.kind # "NoPiece"

\* C33: on a beta cutoff the killer, history and counter-move tables are updated
\* only when the cutoff move is quiet: a cutoff move that captures a piece (kind
\* Capture, en passant, or a promotion onto an occupied square) leaves the three
\* tables unchanged
C33_CaptureCutoffKeepsTables ==
    [][(CutoffPending /\ LastMoveCaptured)
          => UNCHANGED <<killer_moves, history, counter_moves>>]_vars

\* the same for the cutoff moves of kind Capture
C33_KindCaptureCutoffKeepsTables ==
    [][(CutoffPending /\ stack[Len(stack) - 1].mv.kind = "Capture")
          => UNCHANGED <<killer_moves, history, counter_moves>>]_vars

\* ------------------------------------------------------- the search: after the stop
\* C34: from the moment the timer's stopped flag is set until search_position
\* returns, no entry is stored into the transposition table and the killer, history
\* and counter-move tables are not modified
C34_StoppedKeepsTables ==
    [][(iteration.state = "searching" /\ is_stopped(timer))
          => UNCHANGED <<transposition_table, killer_moves, history, counter_moves>>]_vars

\* ------------------------------------------------------------------ the game phase
\* C35: for every board reachable by legal play, boards with promoted pieces (three
\* queens or more) included, get_game_phase returns a value in [0, 256], so that the
\* two weights of the tapered evaluation, 256 - phase and phase, are not negative
C35_PhaseInRange ==
    (last.op = "position" /\ last.ret = "ok") =>
        /\ get_game_phase(board) >= 0
        /\ 256 - get_game_phase(board) >= 0

\* ------------------------------------------------------------------ pawn attacks
\* the pawn test of is_square_attacked: the pawn attacks of the other side from the
\* square, met with the attacker's pawns
PawnPart(b, square, attacker_side) ==
    pawn_attacks(NotSide(attacker_side))[square]
        \cap get_piece_bb(b, PieceNew(attacker_side, "Pawn")) # EMPTY_BB

\* the squares of a pawn attack lie one rank ahead (dir = 1 for white, -1 for black)
\* on the two neighbouring files
NoWrap(table, dir) ==
    \A s \in Squares : \A t \in table[s] :
       RankOf(t) = RankOf(s) + dir /\ Abs(FileOf(t) - FileOf(s)) = 1

\* C36: the pawn part of is_square_attacked is exact: for every square s and attacking
\* side A it finds a pawn iff some pawn of A on a square p has s in pawn_attacks(A)[p];
\* t is in WHITE_PAWN_ATTACKS[s] iff s is in BLACK_PAWN_ATTACKS[t], and no attack wraps
\* around the A or H file
C36_PawnAttacksExact ==
    /\ \A s \in Squares, t \in Squares :
          t \in WHITE_PAWN_ATTACKS[s] <=> s \in BLACK_PAWN_ATTACKS[t]
    /\ NoWrap(WHITE_PAWN_ATTACKS, 1) /\ NoWrap(BLACK_PAWN_ATTACKS, -1)
    /\ \A s \in Squares, A \in {"White", "Black"} :
          PawnPart(board, s, A)
             <=> \E p \in get_piece_bb(board, PieceNew(A, "Pawn")) : s \in pawn_attacks(A)[p]

\* a king has stepped onto a square that a pawn on the A or H file attacks (such a
\* pawn attacks one square, none beyond the edge), and make_move has returned false
C36_Witness ==
    /\ last.op = "make_move" /\ last.ret = "false"
    /\ \E ks \in get_piece_bb(board, PieceNew(NotSide(board.side), "King")) :
          /\ PawnPart(board, ks, board.side)
          /\ \E p \in get_piece_bb(board, PieceNew(board.side, "Pawn")) :
                /\ FileOf(p) \in {0, 7}
                /\ pawn_attacks(board.side)[p] = {ks}

C38_PlyWithinKillers ==
    /\ search_info.ply <= SearchDepth_MAX
    /\ iteration.state # "panic"

NullWindowCallee(k) == stack[k].pv # k - 1

\* the list the call k levels deep was handed as pv
HandedPv(k) ==
    IF stack[k].pv = 0 THEN iteration.pv ELSE stack[stack[k].pv].current_pv

\* the moves of the move list of the call k levels deep
MovesOfFrame(k) == {stack[k].move_list[j].mv : j \in 1..Len(stack[k].move_list)}

\* the pv part of C40: the pv handed to a call that owns it is empty or starts with
\* a move of that call's own move list, also while null-window calls run above it
PvStartsWithOwnMove ==
    \A k \in 1..Len(stack) :
       (~NullWindowCallee(k) /\ stack[k].move_list # <<>>) =>
           \/ HandedPv(k) = <<>>
           \/ HandedPv(k)[1] \in MovesOfFrame(k)

\* C40: the null-window call of negamax, handed the caller's own pv, never writes it:
\* its window is (alpha, alpha + 1), so in negamax and in quiescence_search it never
\* raises alpha (a score above alpha is >= beta and returns first), and the
\* caller's pv always starts with a move of the caller's own position
C40_NullWindowKeepsPv ==
    /\ \A k \in 1..Len(stack) :
          NullWindowCallee(k) =>
              /\ stack[k].beta = stack[k].alpha + 1
              /\ stack[k].alpha = stack[k].old_alpha
              /\ ~stack[k].pvs_enabled
    /\ PvStartsWithOwnMove

\* a null-window negamax call has found a move that scores above its alpha and has
\* returned beta for it, while the pv it was handed holds a line of its caller
C40_Witness ==
    /\ stack # <<>>
    /\ NullWindowCallee(Len(stack))
    /\ Top(SearchState).kind = "negamax"
    /\ Top(SearchState).pc = "return"
    /\ Top(SearchState).best_score_from_node > Top(SearchState).old_alpha
    /\ Top(SearchState).value = Top(SearchState).beta
    /\ HandedPv(Len(stack)) # <<>>

\* the same in quiescence_search: the stand-pat score or a capture is above alpha
C40_QuiescenceCallee ==
    /\ stack # <<>>
    /\ NullWindowCallee(Len(stack))
    /\ Top(SearchState).kind = "quiescence"
    /\ Top(SearchState).pc = "return"
    /\ Top(SearchState).value = Top(SearchState).beta
    /\ HandedPv(Len(stack)) # <<>>

====
